---- MODULE Spec2Model ----
(***************************************************************************)
(* Run lifecycle and persistence engine of WSPass (RunStore on top of the  *)
(* JSON file storage helpers).                                             *)
(*                                                                         *)
(* The specifications are defined over the same files and handlers:        *)
(*   Spec           every store call runs to completion before the next    *)
(*                  starts (one action per RunStore method);               *)
(*   SpecRace       store calls are asynchronous tasks that interleave at  *)
(*                  each await, i.e. at each file read, temp-file write    *)
(*                  and rename;                                            *)
(*   SpecCrash      one call at a time, one file operation per step, and   *)
(*                  the call may be stopped between any two steps;         *)
(*   SpecTwoRuns    two callers, each on a run of its own;                 *)
(*   SpecArtifacts  the artifact calls of a run, and store calls on a run  *)
(*                  id without a readable run.json;                        *)
(*   SpecArtifactCrash  writeArtifact one file operation per step, and the *)
(*                  call may be stopped between any two steps;             *)
(*   SpecSubState   every kind of store call on one run;                   *)
(*   SpecDispatch   dispatchRun requests of the controller, one at a time; *)
(*   SpecAgent      one worker agent at a time on a dispatched execution.  *)
(***************************************************************************)
EXTENDS Integers, Sequences, FiniteSets, TLC

VARIABLES
    runFile,      \* runs/<runId>/run.json        : None or Some(run document)
    runTmp,       \* runs/<runId>/run.json.tmp    : None or Some(run document)
    indexFile,    \* runs/index.json              : None or Some(sequence of run records)
    indexTmp,     \* runs/index.json.tmp          : None or Some(sequence of run records)
    clock,        \* the wall clock read by new Date().toISOString()
    last,         \* Spec: the store call made by the last step and its outcome
    tasks,        \* SpecRace: the store calls in flight, one record per task slot
    runVersion,   \* SpecRace (history): number of renames onto run.json so far
    started,      \* SpecRace, SpecCrash (history): number of calls started so far
    found,        \* SpecCrash (history): the index as the call in flight found it
    crashed,      \* SpecCrash (history): some call so far was stopped before its end
    artifactFile, \* runs/<runId>/artifacts/<filename> : None or Some(content)
    manifest      \* runs/<runId>/artifacts/index.json : None or Some(sequence of metadata)

fsVars == <<runFile, runTmp, indexFile, indexTmp>>
raceVars == <<tasks, runVersion, started>>
crashVars == <<found, crashed>>
artVars == <<artifactFile, manifest>>
vars == <<runFile, runTmp, indexFile, indexTmp, clock, last, tasks, runVersion, started,
          found, crashed, artifactFile, manifest>>

----------------------------------------------------------------------------
(* Bounds of the model                                                     *)

MaxClock == 2
MaxStarted == 2

RunIds == {"r1"}
TaskIds == {"t1", "t2"}

----------------------------------------------------------------------------
(* Optional values: an absent key is None, a present one is Some(v)        *)

None == <<>>
Some(v) == <<v>>
Coalesce(a, b) == IF a # None THEN a ELSE b

----------------------------------------------------------------------------
(* Enumerations and input menus                                            *)

RUN_STEPS == {"created", "parse", "clarify", "options", "select", "export"}

RunExecutionStatuses == {"queued", "dispatched", "running", "succeeded", "failed"}

ActiveStatuses == {"queued", "dispatched", "running"}

TerminalStatuses == {"succeeded", "failed"}

WorkflowNames == {"phase1-planner", "phase2-implementation"}

PlannerInputs == {None, Some("prd")}

ErrorMessages == {"boom", "late"}

UpdateRunPatches ==
    { [status |-> Some("parsed"), current_step |-> Some("parse")],
      [status |-> Some("failed"), current_step |-> None] }

ExecutionPatch(st, msg, ghid) ==
    [ workflow_name  |-> None,
      status         |-> st,
      github_run_id  |-> ghid,
      github_run_url |-> IF ghid = None THEN None ELSE Some("url"),
      error_message  |-> msg ]

UpdateExecutionPatches ==
    { ExecutionPatch(st, None, None) : st \in RunExecutionStatuses }
    \cup { ExecutionPatch(st, Some("boom"), None) : st \in {"running", "failed"} }
    \cup { ExecutionPatch("running", None, Some(7)) }

\* The sub-documents of a run, with the keys the handlers and the controller
\* look at and one optional key each where the schema has one.
RepoState(repository, defaultBranch) ==
    [ repository |-> repository, default_branch |-> defaultBranch ]
DecompositionState(status, approvedBy) ==
    [ status |-> status, artifact_name |-> "decomposition_plan", approved_by |-> approvedBy ]
ArchitectureChatState(messages) == [ updated_at |-> 1, messages |-> messages ]
ImplementationState(issues) == [ synced_at |-> 1, issues |-> issues ]

RepoStates == { RepoState("repoA", Some("main")) }
DecompositionStates == { DecompositionState("approved", Some("lead")) }
ArchitectureChats == { ArchitectureChatState(<<"m1">>) }
ImplementationStates == { ImplementationState(<<"i1">>) }

----------------------------------------------------------------------------
(* Run documents                                                           *)

InitialRun(id, now, input) ==
    [ run_id               |-> id,
      created_at           |-> now,
      status               |-> "created",
      current_step         |-> "created",
      last_updated_at      |-> now,
      step_timestamps      |-> [s \in RUN_STEPS |-> IF s = "created" THEN Some(now) ELSE None],
      input                |-> input,
      execution            |-> None,
      repo_state           |-> None,
      decomposition_state  |-> None,
      architecture_chat    |-> None,
      implementation_state |-> None ]

toRunRecord(run) ==
    [ run_id          |-> run.run_id,
      created_at      |-> run.created_at,
      status          |-> run.status,
      current_step    |-> run.current_step,
      last_updated_at |-> run.last_updated_at ]

\* Order of run ids as strings (a < b in the comparator of sortRunsNewestFirst).
RunIdRank(id) == CASE id = "r1" -> 1 [] id = "r2" -> 2 [] OTHER -> 3

\* Faulty variant of the comparator: no tie-break on run_id.
RunBeforeNoTieBreak(a, b) == a.created_at > b.created_at

\* The comparator of sortRunsNewestFirst: TRUE when a sorts before b.
RunBefore(a, b) ==
    IF a.created_at # b.created_at
    THEN a.created_at > b.created_at
    ELSE RunIdRank(a.run_id) < RunIdRank(b.run_id)

RECURSIVE InsertRun(_, _)
InsertRun(rec, runs) ==
    IF runs = <<>> THEN <<rec>>
    ELSE IF RunBefore(rec, Head(runs)) THEN <<rec>> \o runs
    ELSE <<Head(runs)>> \o InsertRun(rec, Tail(runs))

RECURSIVE sortRunsNewestFirst(_)
sortRunsNewestFirst(runs) ==
    IF runs = <<>> THEN <<>>
    ELSE InsertRun(Head(runs), sortRunsNewestFirst(Tail(runs)))

\* Faulty variant: the previous record of the run stays in the index.
UpsertIndexNoFilter(runs, rec) == sortRunsNewestFirst(runs \o <<rec>>)

\* index.runs.filter(r => r.run_id !== id), then the new record, then the sort.
UpsertIndex(runs, rec) ==
    sortRunsNewestFirst(SelectSeq(runs, LAMBDA r : r.run_id # rec.run_id) \o <<rec>>)

\* Faulty variant: the index on disk is never read, every caller starts afresh.
readOrInitIndexAlwaysFresh(idx) == <<>>

\* readOrInitIndex: a missing index reads as the fresh, empty one.
readOrInitIndex(idx) == IF idx = None THEN <<>> ELSE idx[1]

----------------------------------------------------------------------------
(* Handlers as functions of the document read by getRun                    *)

Ok(run) == [err |-> "none", run |-> run]
Err(e, run) == [err |-> e, run |-> run]

\* Faulty variant: reaching a step again stamps it again.
nextStepTimestampsOverwriting(existing, step, now) ==
    IF step = None
    THEN existing.step_timestamps
    ELSE [existing.step_timestamps EXCEPT ![step[1]] = Some(now)]

\* Faulty variant: a step reached for the first time gets no timestamp.
nextStepTimestampsKeepingOld(existing, step, now) == existing.step_timestamps

nextStepTimestamps(existing, step, now) ==
    IF step = None
    THEN existing.step_timestamps
    ELSE [existing.step_timestamps EXCEPT ![step[1]] = Coalesce(@, Some(now))]

updateRunResult(existing, patch, now) ==
    Ok([existing EXCEPT
          !.status = IF patch.status # None THEN patch.status[1] ELSE @,
          !.current_step = IF patch.current_step # None THEN patch.current_step[1] ELSE @,
          !.step_timestamps = nextStepTimestamps(existing, patch.current_step, now)])

\* Faulty variant of the transition table: queued may jump straight to succeeded.
allowedWithShortcut(from) ==
    CASE from = "queued"     -> {"dispatched", "failed", "succeeded"}
      [] from = "dispatched" -> {"running", "failed"}
      [] from = "running"    -> {"succeeded", "failed"}
      [] from = "succeeded"  -> {}
      [] from = "failed"     -> {}

\* Faulty variant of the transition table: a failed execution may run again.
allowedWithRetry(from) ==
    CASE from = "queued"     -> {"dispatched", "failed"}
      [] from = "dispatched" -> {"running", "failed"}
      [] from = "running"    -> {"succeeded", "failed"}
      [] from = "succeeded"  -> {}
      [] from = "failed"     -> {"running"}

allowed(from) ==
    CASE from = "queued"     -> {"dispatched", "failed"}
      [] from = "dispatched" -> {"running", "failed"}
      [] from = "running"    -> {"succeeded", "failed"}
      [] from = "succeeded"  -> {}
      [] from = "failed"     -> {}

assertCanMoveExecution(from, to) == to \in allowed(from)

\* Faulty variant: a running execution does not block a new queueExecution.
QueueBlockingStatusesNoRunning == {"queued", "dispatched"}

QueueBlockingStatuses == {"queued", "dispatched", "running"}

FreshExecution(workflowName, now) ==
    [ backend        |-> "github_actions",
      workflow_name  |-> workflowName,
      status         |-> "queued",
      github_run_id  |-> None,
      github_run_url |-> None,
      requested_at   |-> now,
      started_at     |-> None,
      completed_at   |-> None,
      error_message  |-> None ]

\* Faulty variant: the check for persisted planner input is missing.
queueExecutionResultNoInputCheck(existing, workflowName, now) ==
    IF existing.execution # None
       /\ existing.execution[1].status \in {"queued", "dispatched", "running"}
    THEN Err("RunConflictError", existing)
    ELSE Ok([existing EXCEPT !.execution = Some(FreshExecution(workflowName, now))])

\* Faulty variant: a new execution is merged into the previous one.
queueExecutionResultMerging(existing, workflowName, now) ==
    IF existing.input = None
    THEN Err("RunConflictError", existing)
    ELSE IF existing.execution # None
            /\ existing.execution[1].status \in {"queued", "dispatched", "running"}
    THEN Err("RunConflictError", existing)
    ELSE IF existing.execution # None
    THEN Ok([existing EXCEPT !.execution =
               Some([existing.execution[1] EXCEPT
                       !.workflow_name = workflowName,
                       !.status = "queued",
                       !.requested_at = now])])
    ELSE Ok([existing EXCEPT !.execution = Some(FreshExecution(workflowName, now))])

queueExecutionResult(existing, workflowName, now) ==
    IF existing.input = None
    THEN Err("RunConflictError", existing)
    ELSE IF existing.execution # None
            /\ existing.execution[1].status \in QueueBlockingStatuses
    THEN Err("RunConflictError", existing)
    ELSE Ok([existing EXCEPT !.execution = Some(FreshExecution(workflowName, now))])

\* The spread {...current, ...patch} followed by the three explicit keys.
mergeExecution(current, patch, startedAt, completedAt) ==
    [current EXCEPT
       !.status = patch.status,
       !.github_run_id = Coalesce(patch.github_run_id, @),
       !.github_run_url = Coalesce(patch.github_run_url, @),
       !.error_message = Coalesce(patch.error_message, @),
       !.workflow_name = IF patch.workflow_name # None THEN patch.workflow_name[1] ELSE @,
       !.started_at = startedAt,
       !.completed_at = completedAt]

\* Faulty variant: started_at is stamped as soon as the execution is dispatched.
nextExecutionStartsAtDispatch(current, patch, now) ==
    LET merged ==
          mergeExecution(current, patch,
             IF patch.status \in {"dispatched", "running"}
             THEN Coalesce(current.started_at, Some(now))
             ELSE current.started_at,
             IF patch.status \in {"succeeded", "failed"}
             THEN Some(now)
             ELSE current.completed_at)
    IN IF patch.status # "failed"
       THEN [merged EXCEPT !.error_message = None]
       ELSE merged

\* Faulty variant: completed_at is stamped on success only.
nextExecutionCompletesOnSuccess(current, patch, now) ==
    LET merged ==
          mergeExecution(current, patch,
             IF patch.status = "running"
             THEN Coalesce(current.started_at, Some(now))
             ELSE current.started_at,
             IF patch.status = "succeeded"
             THEN Some(now)
             ELSE current.completed_at)
    IN IF patch.status # "failed"
       THEN [merged EXCEPT !.error_message = None]
       ELSE merged

\* Faulty variant: error_message is never deleted from the merged execution.
nextExecutionKeepsErrorMessage(current, patch, now) ==
    mergeExecution(current, patch,
       IF patch.status = "running"
       THEN Coalesce(current.started_at, Some(now))
       ELSE current.started_at,
       IF patch.status \in {"succeeded", "failed"}
       THEN Some(now)
       ELSE current.completed_at)

nextExecution(current, patch, now) ==
    LET merged ==
          mergeExecution(current, patch,
             IF patch.status = "running"
             THEN Coalesce(current.started_at, Some(now))
             ELSE current.started_at,
             IF patch.status \in {"succeeded", "failed"}
             THEN Some(now)
             ELSE current.completed_at)
    IN IF patch.status # "failed"
       THEN [merged EXCEPT !.error_message = None]
       ELSE merged

\* Faulty variant: a failed execution also marks the run itself as failed.
updateExecutionResultFailsRun(existing, patch, now) ==
    IF existing.execution = None
    THEN Err("RunConflictError", existing)
    ELSE IF ~assertCanMoveExecution(existing.execution[1].status, patch.status)
    THEN Err("InvalidExecutionTransitionError", existing)
    ELSE Ok([existing EXCEPT
               !.status = IF patch.status = "failed" THEN "failed" ELSE @,
               !.execution = Some(nextExecution(existing.execution[1], patch, now))])

\* Faulty variant: a missing execution is reported as an illegal transition.
updateExecutionResultNoExecutionCheck(existing, patch, now) ==
    IF existing.execution = None
    THEN Err("InvalidExecutionTransitionError", existing)
    ELSE IF ~assertCanMoveExecution(existing.execution[1].status, patch.status)
    THEN Err("InvalidExecutionTransitionError", existing)
    ELSE Ok([existing EXCEPT
               !.execution = Some(nextExecution(existing.execution[1], patch, now))])

updateExecutionResult(existing, patch, now) ==
    IF existing.execution = None
    THEN Err("RunConflictError", existing)
    ELSE IF ~assertCanMoveExecution(existing.execution[1].status, patch.status)
    THEN Err("InvalidExecutionTransitionError", existing)
    ELSE Ok([existing EXCEPT
               !.execution = Some(nextExecution(existing.execution[1], patch, now))])

\* Faulty variant: failExecution does not look for a terminal execution itself.
failExecutionGuardNoTerminalCheck(existing) ==
    IF existing.execution = None
    THEN "RunConflictError"
    ELSE "none"

\* The checks failExecution makes on its own read, before it calls updateExecution.
failExecutionGuard(existing) ==
    IF existing.execution = None
    THEN "RunConflictError"
    ELSE IF existing.execution[1].status \in {"succeeded", "failed"}
    THEN "RunConflictError"
    ELSE "none"

failExecutionPatch(errorMessage) == ExecutionPatch("failed", Some(errorMessage), None)

failExecutionResult(existing, errorMessage, now) ==
    IF failExecutionGuard(existing) # "none"
    THEN Err(failExecutionGuard(existing), existing)
    ELSE updateExecutionResult(existing, failExecutionPatch(errorMessage), now)

markExecutionDispatchedPatch == ExecutionPatch("dispatched", None, None)

\* Faulty variant: the supplied sub-document is merged key by key into the
\* stored one, so a key the new value leaves out keeps its old content.
updateSubStateResultMerging(existing, field, value) ==
    LET merged == IF existing[field] = None THEN value
                  ELSE [k \in DOMAIN value |->
                          IF k \in {"default_branch", "approved_by"} /\ value[k] = None
                          THEN existing[field][1][k]
                          ELSE value[k]]
    IN Ok([existing EXCEPT ![field] = Some(merged)])

updateSubStateResult(existing, field, value) ==
    Ok(CASE field = "repo_state" -> [existing EXCEPT !.repo_state = Some(value)]
         [] field = "decomposition_state" -> [existing EXCEPT !.decomposition_state = Some(value)]
         [] field = "architecture_chat" -> [existing EXCEPT !.architecture_chat = Some(value)]
         [] field = "implementation_state" -> [existing EXCEPT !.implementation_state = Some(value)])

\* Faulty variant: the stamp also lands on created_at.
persistStampCreatedAt(run, now) ==
    [run EXCEPT !.created_at = now, !.last_updated_at = now]

\* persistRun stamps last_updated_at before the document is validated and written.
persistStamp(run, now) == [run EXCEPT !.last_updated_at = now]

\* A run.json whose bytes do not parse against RunDetailSchema.
Unreadable == [garbage |-> TRUE]

\* getRun: readJson succeeds when the file exists and parses.
Readable(file) == file # None /\ file[1] # Unreadable

\* The outcome of a store call on run.json content `file`.
storeCallResult(op, arg, file, now) ==
    IF ~Readable(file)
    THEN [err |-> "RunNotFoundError", run |-> None]
    ELSE LET existing == file[1]
             res == CASE op = "updateRun" -> updateRunResult(existing, arg, now)
                      [] op = "queueExecution" -> queueExecutionResult(existing, arg, now)
                      [] op = "markExecutionDispatched" ->
                             updateExecutionResult(existing, markExecutionDispatchedPatch, now)
                      [] op = "failExecution" -> failExecutionResult(existing, arg, now)
                      [] op = "updateExecution" -> updateExecutionResult(existing, arg, now)
                      [] op = "updateRepoState" -> updateSubStateResult(existing, "repo_state", arg)
                      [] op = "updateDecompositionState" ->
                             updateSubStateResult(existing, "decomposition_state", arg)
                      [] op = "updateArchitectureChat" ->
                             updateSubStateResult(existing, "architecture_chat", arg)
                      [] op = "updateImplementationState" ->
                             updateSubStateResult(existing, "implementation_state", arg)
         IN [err |-> res.err, run |-> Some(res.run)]

----------------------------------------------------------------------------
(* Artifacts: names, filenames, metadata and the manifest                  *)
(*                                                                         *)
(* A name is a sequence of characters, so that toSafeFilename and the       *)
(* string comparison of the manifest sort are computed as the code does.    *)

ArtifactNames == { <<" ", "P", "!", "!">>, <<"p", "_">> }

\* "architecture_pack", the artifact dispatchRun asks for.
ArchitecturePackName ==
    <<"a", "r", "c", "h", "i", "t", "e", "c", "t", "u", "r", "e", "_", "p", "a", "c", "k">>
ArtifactContentTypes == {"application/json", "text/markdown"}
Payloads == {"v1", "v2"}

\* String.prototype.toLowerCase on one character.
LowerChar(c) == CASE c = "P" -> "p" [] c = "A" -> "a" [] OTHER -> c

\* The characters the pattern [^a-z0-9._-] leaves alone.
SafeChars ==
    {"a", "c", "e", "h", "i", "k", "p", "r", "t", "u", "0", "1", ".", "_", "-"}

\* UTF-16 code units, which the < and > of strings compare.
CharCode(c) ==
    CASE c = " " -> 32 [] c = "!" -> 33 [] c = "-" -> 45 [] c = "." -> 46
      [] c = "0" -> 48 [] c = "1" -> 49 [] c = "A" -> 65 [] c = "P" -> 80
      [] c = "_" -> 95 [] c = "a" -> 97 [] c = "c" -> 99 [] c = "e" -> 101
      [] c = "h" -> 104 [] c = "i" -> 105 [] c = "k" -> 107 [] c = "p" -> 112
      [] c = "r" -> 114 [] c = "t" -> 116 [] c = "u" -> 117

RECURSIVE TrimStart(_)
TrimStart(name) ==
    IF name # <<>> /\ Head(name) = " " THEN TrimStart(Tail(name)) ELSE name

RECURSIVE TrimEnd(_)
TrimEnd(name) ==
    IF name # <<>> /\ name[Len(name)] = " "
    THEN TrimEnd(SubSeq(name, 1, Len(name) - 1))
    ELSE name

\* replace(/[^a-z0-9._-]+/g, "_"): every run of other characters becomes one "_".
RECURSIVE ReplaceUnsafeRuns(_, _)
ReplaceUnsafeRuns(name, inRun) ==
    IF name = <<>> THEN <<>>
    ELSE IF Head(name) \in SafeChars
    THEN <<Head(name)>> \o ReplaceUnsafeRuns(Tail(name), FALSE)
    ELSE IF inRun THEN ReplaceUnsafeRuns(Tail(name), TRUE)
    ELSE <<"_">> \o ReplaceUnsafeRuns(Tail(name), TRUE)

toSafeFilename(name) ==
    LET trimmed == TrimEnd(TrimStart(name))
        lowered == [i \in 1..Len(trimmed) |-> LowerChar(trimmed[i])]
    IN ReplaceUnsafeRuns(lowered, FALSE)

Extension(contentType) ==
    CASE contentType = "application/json" -> ".json"
      [] contentType = "text/markdown" -> ".md"
      [] OTHER -> ".txt"

\* `${safe}.json`, `${safe}.md` or `${safe}.txt`, safe falling back to "artifact".
artifactFilename(name, contentType) ==
    (IF toSafeFilename(name) = <<>> THEN <<"artifact">> ELSE toSafeFilename(name))
       \o <<Extension(contentType)>>

ArtifactFilenames ==
    { artifactFilename(n, ct) : n \in ArtifactNames \cup {ArchitecturePackName},
                                ct \in ArtifactContentTypes }

\* The text written: JSON.stringify(payload, null, 2) + "\n", or the string itself.
Serialize(contentType, payload) ==
    IF contentType = "application/json" THEN <<"json", payload>> ELSE <<"text", payload>>

\* readArtifact: JSON.parse(raw) for application/json, otherwise raw.
Deserialize(contentType, text) ==
    IF contentType = "application/json"
    THEN (IF text[1] = "json" THEN text[2] ELSE "SyntaxError")
    ELSE (IF text[1] = "text" THEN text[2] ELSE text)

sha256Hex(text) == <<"sha256", text>>

ArtifactMetadata(name, contentType, payload, now) ==
    [ name         |-> name,
      filename     |-> artifactFilename(name, contentType),
      content_type |-> contentType,
      sha256       |-> sha256Hex(Serialize(contentType, payload)),
      created_at   |-> now ]

\* a.name < b.name on strings.
RECURSIVE NameLess(_, _)
NameLess(a, b) ==
    IF b = <<>> THEN FALSE
    ELSE IF a = <<>> THEN TRUE
    ELSE IF Head(a) # Head(b) THEN CharCode(Head(a)) < CharCode(Head(b))
    ELSE NameLess(Tail(a), Tail(b))

\* Faulty variant of the manifest comparator: oldest first.
ArtifactBeforeOldestFirst(a, b) ==
    IF a.created_at # b.created_at
    THEN a.created_at < b.created_at
    ELSE NameLess(a.name, b.name)

\* The comparator of the manifest sort: TRUE when a sorts before b.
ArtifactBefore(a, b) ==
    IF a.created_at # b.created_at
    THEN a.created_at > b.created_at
    ELSE NameLess(a.name, b.name)

RECURSIVE InsertArtifact(_, _)
InsertArtifact(meta, artifacts) ==
    IF artifacts = <<>> THEN <<meta>>
    ELSE IF ArtifactBefore(meta, Head(artifacts)) THEN <<meta>> \o artifacts
    ELSE <<Head(artifacts)>> \o InsertArtifact(meta, Tail(artifacts))

RECURSIVE sortArtifacts(_)
sortArtifacts(artifacts) ==
    IF artifacts = <<>> THEN <<>>
    ELSE InsertArtifact(Head(artifacts), sortArtifacts(Tail(artifacts)))

\* Faulty variant: an earlier entry of the same name stays in the manifest.
nextArtifactsAppending(artifacts, meta) == sortArtifacts(artifacts \o <<meta>>)

\* [...index.artifacts.filter(a => a.name !== name), meta].sort(...)
nextArtifacts(artifacts, meta) ==
    sortArtifacts(SelectSeq(artifacts, LAMBDA a : a.name # meta.name) \o <<meta>>)

\* readOrInitArtifactsIndex: a missing manifest reads as the fresh, empty one
\* (which the call also writes).
readOrInitArtifactsIndex(man) == IF man = None THEN <<>> ELSE man[1]

\* A call's outcome: the error, what it returns, and the artifact files and
\* manifest of the run after it.
ArtifactOutcome(e, result, files, man) ==
    [err |-> e, result |-> result, files |-> files, manifest |-> man]

writeArtifactResult(file, files, man, arg, now) ==
    IF ~Readable(file)
    THEN ArtifactOutcome("RunNotFoundError", None, files, man)
    ELSE LET meta == ArtifactMetadata(arg.name, arg.content_type, arg.payload, now)
             text == Serialize(arg.content_type, arg.payload)
         IN ArtifactOutcome("none", Some(meta),
               [files EXCEPT ![meta.filename] = Some(text)],
               Some(nextArtifacts(readOrInitArtifactsIndex(man), meta)))

\* Faulty variant: the manifest is read (and initialised) for any run id.
listArtifactsResultNoRunCheck(file, files, man) ==
    ArtifactOutcome("none", Some(readOrInitArtifactsIndex(man)), files,
                    Some(readOrInitArtifactsIndex(man)))

listArtifactsResult(file, files, man) ==
    IF ~Readable(file)
    THEN ArtifactOutcome("RunNotFoundError", None, files, man)
    ELSE ArtifactOutcome("none", Some(readOrInitArtifactsIndex(man)), files,
                         Some(readOrInitArtifactsIndex(man)))

\* Faulty variant: a name without a manifest entry is looked up by the filename
\* derived from it.
readArtifactResultByFilename(file, files, man, name) ==
    IF ~Readable(file)
    THEN ArtifactOutcome("RunNotFoundError", None, files, man)
    ELSE LET artifacts == readOrInitArtifactsIndex(man)
             hits == SelectSeq(artifacts, LAMBDA a : a.name = name)
             derived == artifactFilename(name, "application/json")
         IN IF hits = <<>> /\ files[derived] = None
            THEN ArtifactOutcome("RunConflictError", None, files, Some(artifacts))
            ELSE IF hits = <<>>
            THEN ArtifactOutcome("none",
                    Some([artifact |-> [name |-> name, filename |-> derived],
                          payload |-> Deserialize("application/json", files[derived][1])]),
                    files, Some(artifacts))
            ELSE IF files[hits[1].filename] = None
            THEN ArtifactOutcome("ENOENT", None, files, Some(artifacts))
            ELSE ArtifactOutcome("none",
                    Some([artifact |-> hits[1],
                          payload |-> Deserialize(hits[1].content_type,
                                                  files[hits[1].filename][1])]),
                    files, Some(artifacts))

readArtifactResult(file, files, man, name) ==
    IF ~Readable(file)
    THEN ArtifactOutcome("RunNotFoundError", None, files, man)
    ELSE LET artifacts == readOrInitArtifactsIndex(man)
             hits == SelectSeq(artifacts, LAMBDA a : a.name = name)
         IN IF hits = <<>>
            THEN ArtifactOutcome("RunConflictError", None, files, Some(artifacts))
            ELSE IF files[hits[1].filename] = None
            THEN ArtifactOutcome("ENOENT", None, files, Some(artifacts))
            ELSE ArtifactOutcome("none",
                    Some([artifact |-> hits[1],
                          payload |-> Deserialize(hits[1].content_type,
                                                  files[hits[1].filename][1])]),
                    files, Some(artifacts))

----------------------------------------------------------------------------
(* Spec: store calls that run to completion                                *)

\* The execution status a call finds in run.json ("none": no run or no execution).
statusRead(file) ==
    IF ~Readable(file) THEN "none"
    ELSE IF file[1].execution = None THEN "none"
    ELSE file[1].execution[1].status

\* No artifact files and no manifest yet.
NoArtifactFiles == [r \in RunIds |-> [f \in ArtifactFilenames |-> None]]
NoManifests == [r \in RunIds |-> None]

\* Nothing recorded about the index a call found.
NotFound == [index |-> None, stale |-> FALSE]

NoCall ==
    [op |-> "none", run |-> "none", arg |-> None, err |-> "none", from |-> "none",
     result |-> None]

IdleTask ==
    [ op |-> "none", call |-> "none", run |-> "none", arg |-> None, pc |-> "idle",
      err |-> "none", next |-> None, nextRuns |-> <<>>, readVersion |-> 0,
      queued |-> FALSE, dispatched |-> FALSE, reply |-> "none" ]

Init ==
    /\ runFile = [r \in RunIds |-> None]
    /\ runTmp = [r \in RunIds |-> None]
    /\ indexFile = None
    /\ indexTmp = None
    /\ clock = 1
    /\ last = NoCall
    /\ tasks = [t \in TaskIds |-> IdleTask]
    /\ runVersion = [r \in RunIds |-> 0]
    /\ started = 0
    /\ found = NotFound
    /\ crashed = FALSE
    /\ artifactFile = NoArtifactFiles
    /\ manifest = NoManifests

\* persistRun: write run.json, then read (or initialise) the index and rewrite it.
persistRun(run) ==
    LET validated == persistStamp(run, clock) IN
    /\ runFile' = [runFile EXCEPT ![validated.run_id] = Some(validated)]
    /\ indexFile' = Some(UpsertIndex(readOrInitIndex(indexFile), toRunRecord(validated)))
    /\ UNCHANGED <<runTmp, indexTmp>>

Tick ==
    /\ clock < MaxClock
    /\ clock' = clock + 1
    /\ last' = [NoCall EXCEPT !.op = "tick"]
    /\ UNCHANGED <<fsVars, raceVars, crashVars, artVars>>

createRun(r, input) ==
    /\ runFile[r] = None
    /\ runFile' = [runFile EXCEPT ![r] = Some(InitialRun(r, clock, input))]
    /\ indexFile' = Some(UpsertIndex(readOrInitIndex(indexFile),
                                     toRunRecord(InitialRun(r, clock, input))))
    /\ last' = [op |-> "createRun", run |-> r, arg |-> input, err |-> "none", from |-> "none",
                result |-> None]
    /\ UNCHANGED <<runTmp, indexTmp, clock, raceVars, crashVars, artVars>>

StoreCall(op, r, arg) ==
    LET res == storeCallResult(op, arg, runFile[r], clock) IN
    /\ last' = [op |-> op, run |-> r, arg |-> arg, err |-> res.err,
                from |-> statusRead(runFile[r]), result |-> None]
    /\ IF res.err = "none" THEN persistRun(res.run[1]) ELSE UNCHANGED fsVars
    /\ UNCHANGED <<clock, raceVars, crashVars, artVars>>

updateRun(r, patch) == StoreCall("updateRun", r, patch)
queueExecution(r, workflowName) == StoreCall("queueExecution", r, workflowName)
markExecutionDispatched(r) == StoreCall("markExecutionDispatched", r, None)
failExecution(r, errorMessage) == StoreCall("failExecution", r, errorMessage)
updateExecution(r, patch) == StoreCall("updateExecution", r, patch)
updateRepoState(r, v) == StoreCall("updateRepoState", r, v)
updateDecompositionState(r, v) == StoreCall("updateDecompositionState", r, v)
updateArchitectureChat(r, v) == StoreCall("updateArchitectureChat", r, v)
updateImplementationState(r, v) == StoreCall("updateImplementationState", r, v)

Next ==
    \/ Tick
    \/ \E r \in RunIds, input \in PlannerInputs : createRun(r, input)
    \/ \E r \in RunIds, patch \in UpdateRunPatches : updateRun(r, patch)
    \/ \E r \in RunIds, w \in WorkflowNames : queueExecution(r, w)
    \/ \E r \in RunIds : markExecutionDispatched(r)
    \/ \E r \in RunIds, m \in ErrorMessages : failExecution(r, m)
    \/ \E r \in RunIds, patch \in UpdateExecutionPatches : updateExecution(r, patch)
    \/ \E r \in RunIds, v \in RepoStates : updateRepoState(r, v)
    \/ \E r \in RunIds, v \in DecompositionStates : updateDecompositionState(r, v)

Spec == Init /\ [][Next]_vars

----------------------------------------------------------------------------
(* SpecRace: store calls as tasks that interleave at every await           *)
(*                                                                         *)
(* A task is one call of a RunStore method, or one dispatchRun request of  *)
(* the controller (queueExecution, the external dispatch, then             *)
(* markExecutionDispatched or failExecution).  Each step is one file       *)
(* operation together with the synchronous code that follows it.           *)

\* Run documents the sequential store produces for one run created at time 1:
\* created, then queued, dispatched, running, succeeded or failed.
CreatedRun == InitialRun("r1", 1, Some("prd"))
QueuedRun == persistStamp(queueExecutionResult(CreatedRun, "phase1-planner", 1).run, 1)
DispatchedRun == persistStamp(updateExecutionResult(QueuedRun, markExecutionDispatchedPatch, 1).run, 1)
RunningRun == persistStamp(updateExecutionResult(DispatchedRun, ExecutionPatch("running", None, None), 1).run, 1)
SucceededRun == persistStamp(updateExecutionResult(RunningRun, ExecutionPatch("succeeded", None, None), 1).run, 1)
FailedRun == persistStamp(failExecutionResult(RunningRun, "boom", 1).run, 1)

RaceInitialRuns == {CreatedRun, QueuedRun, DispatchedRun, RunningRun, SucceededRun, FailedRun}

\* The calls a task may make: <<method, argument>>.
RaceCalls ==
    { <<"queueExecution", "phase1-planner">>,
      <<"dispatchRun", "phase1-planner">>,
      <<"markExecutionDispatched", None>>,
      <<"updateExecution", ExecutionPatch("running", None, None)>>,
      <<"updateExecution", ExecutionPatch("succeeded", None, None)>>,
      <<"failExecution", "late">>,
      <<"updateRun", [status |-> Some("parsed"), current_step |-> Some("parse")]>>,
      <<"updateRepoState", RepoState("repoA", Some("main"))>>,
      <<"updateDecompositionState", DecompositionState("approved", Some("lead"))>>,
      <<"updateArchitectureChat", ArchitectureChatState(<<"m1">>)>>,
      <<"updateImplementationState", ImplementationState(<<"i1">>)>> }

DispatchOutcomes == {"none", "GitHubActionsDispatchError"}

InitRace ==
    /\ \E run \in RaceInitialRuns :
          /\ runFile = [r \in RunIds |-> Some(run)]
          /\ indexFile = Some(<<toRunRecord(run)>>)
    /\ runTmp = [r \in RunIds |-> None]
    /\ indexTmp = None
    /\ clock = 1
    /\ last = NoCall
    /\ tasks = [t \in TaskIds |-> IdleTask]
    /\ runVersion = [r \in RunIds |-> 0]
    /\ started = 0
    /\ found = NotFound
    /\ crashed = FALSE
    /\ artifactFile = NoArtifactFiles
    /\ manifest = NoManifests

\* The first read of a store call: failExecution checks the execution itself
\* before it hands over to updateExecution, which reads the run again.
firstPc(call) == IF call = "failExecution" THEN "failGuard" ELSE "getRun"

\* The handler a task runs on the document read at "getRun".
taskCallResult(call, arg, file, now) ==
    IF call = "failExecution"
    THEN storeCallResult("updateExecution", failExecutionPatch(arg), file, now)
    ELSE storeCallResult(call, arg, file, now)

\* The task after its current store call returned (e = "none") or threw e.
endCall(task, e) ==
    LET cleared == [task EXCEPT !.next = None, !.nextRuns = <<>>] IN
    IF task.op = "dispatchRun" /\ task.call = "queueExecution" /\ e = "none"
    THEN [cleared EXCEPT !.pc = "dispatch", !.queued = TRUE]
    ELSE IF task.op = "dispatchRun" /\ task.call = "failExecution" /\ e = "none"
    THEN [cleared EXCEPT !.pc = "done", !.err = "GitHubActionsDispatchError"]
    ELSE [cleared EXCEPT !.pc = "done", !.err = e,
                         !.queued = (task.call = "queueExecution" /\ e = "none")]

TickRace ==
    /\ clock < MaxClock
    /\ clock' = clock + 1
    /\ UNCHANGED <<fsVars, last, crashVars, artVars, raceVars>>

StartCall(t, r, c) ==
    /\ tasks[t].pc \in {"idle", "done"}
    /\ started < MaxStarted
    /\ started' = started + 1
    /\ tasks' = [tasks EXCEPT ![t] =
          [IdleTask EXCEPT
             !.op = c[1],
             !.call = IF c[1] = "dispatchRun" THEN "queueExecution" ELSE c[1],
             !.run = r,
             !.arg = c[2],
             !.pc = firstPc(c[1])]]
    /\ UNCHANGED <<fsVars, clock, last, crashVars, artVars, runVersion>>

\* failExecution: await this.getRun(runId), then the two checks.
FailGuard(t) ==
    /\ tasks[t].pc = "failGuard"
    /\ LET file == runFile[tasks[t].run]
           e == IF file = None THEN "RunNotFoundError" ELSE failExecutionGuard(file[1])
       IN tasks' = [tasks EXCEPT ![t] =
             IF e = "none" THEN [@ EXCEPT !.pc = "getRun"] ELSE endCall(@, e)]
    /\ UNCHANGED <<fsVars, clock, last, crashVars, artVars, runVersion, started>>

\* await this.getRun(runId), the handler's checks and the document persistRun
\* is about to write.
GetRun(t) ==
    /\ tasks[t].pc = "getRun"
    /\ LET task == tasks[t]
           res == taskCallResult(task.call, task.arg, runFile[task.run], clock)
       IN tasks' = [tasks EXCEPT ![t] =
             IF res.err = "none"
             THEN [@ EXCEPT !.pc = "writeRunTmp",
                            !.next = Some(persistStamp(res.run[1], clock)),
                            !.readVersion = runVersion[task.run]]
             ELSE endCall(@, res.err)]
    /\ UNCHANGED <<fsVars, clock, last, crashVars, artVars, runVersion, started>>

\* atomicWriteFile(run.json): fs.writeFile(tmpPath, contents).
WriteRunTmp(t) ==
    /\ tasks[t].pc = "writeRunTmp"
    /\ runTmp' = [runTmp EXCEPT ![tasks[t].run] = tasks[t].next]
    /\ tasks' = [tasks EXCEPT ![t].pc = "renameRun"]
    /\ UNCHANGED <<runFile, indexFile, indexTmp, clock, last, crashVars, artVars, runVersion, started>>

\* atomicWriteFile(run.json): fs.rename(tmpPath, filePath); the rename throws
\* ENOENT when another task has already renamed the shared temp file away.
RenameRun(t) ==
    /\ tasks[t].pc = "renameRun"
    /\ LET r == tasks[t].run IN
       IF runTmp[r] = None
       THEN /\ tasks' = [tasks EXCEPT ![t] = endCall(@, "ENOENT")]
            /\ UNCHANGED <<fsVars, runVersion>>
       ELSE /\ runFile' = [runFile EXCEPT ![r] = runTmp[r]]
            /\ runTmp' = [runTmp EXCEPT ![r] = None]
            /\ runVersion' = [runVersion EXCEPT ![r] = @ + 1]
            /\ tasks' = [tasks EXCEPT ![t].pc = "readIndex"]
            /\ UNCHANGED <<indexFile, indexTmp>>
    /\ UNCHANGED <<clock, last, crashVars, artVars, started>>

\* persistRun: await this.readOrInitIndex(), then the upsert and the sort.
ReadIndex(t) ==
    /\ tasks[t].pc = "readIndex"
    /\ tasks' = [tasks EXCEPT ![t] =
          [@ EXCEPT !.pc = "writeIndexTmp",
                    !.nextRuns = UpsertIndex(readOrInitIndex(indexFile),
                                             toRunRecord(tasks[t].next[1]))]]
    /\ UNCHANGED <<fsVars, clock, last, crashVars, artVars, runVersion, started>>

\* atomicWriteFile(index.json): fs.writeFile(tmpPath, contents).
WriteIndexTmp(t) ==
    /\ tasks[t].pc = "writeIndexTmp"
    /\ indexTmp' = Some(tasks[t].nextRuns)
    /\ tasks' = [tasks EXCEPT ![t].pc = "renameIndex"]
    /\ UNCHANGED <<runFile, runTmp, indexFile, clock, last, crashVars, artVars, runVersion, started>>

\* atomicWriteFile(index.json): fs.rename(tmpPath, filePath); the call returns.
RenameIndex(t) ==
    /\ tasks[t].pc = "renameIndex"
    /\ IF indexTmp = None
       THEN /\ tasks' = [tasks EXCEPT ![t] = endCall(@, "ENOENT")]
            /\ UNCHANGED fsVars
       ELSE /\ indexFile' = indexTmp
            /\ indexTmp' = None
            /\ tasks' = [tasks EXCEPT ![t] = endCall(@, "none")]
            /\ UNCHANGED <<runFile, runTmp>>
    /\ UNCHANGED <<clock, last, crashVars, artVars, runVersion, started>>

\* dispatchRun after queueExecution returned: the external workflow dispatch,
\* then markExecutionDispatched, or failExecution(err.message) when it throws.
Dispatch(t, outcome) ==
    /\ tasks[t].pc = "dispatch"
    /\ tasks' = [tasks EXCEPT ![t] =
          IF outcome = "none"
          THEN [@ EXCEPT !.dispatched = TRUE, !.call = "markExecutionDispatched",
                         !.arg = None, !.pc = "getRun"]
          ELSE [@ EXCEPT !.call = "failExecution", !.arg = "dispatch failed",
                         !.pc = "failGuard"]]
    /\ UNCHANGED <<fsVars, clock, last, crashVars, artVars, runVersion, started>>

NextRace ==
    \/ TickRace
    \/ \E t \in TaskIds, r \in RunIds, c \in RaceCalls : StartCall(t, r, c)
    \/ \E t \in TaskIds : FailGuard(t)
    \/ \E t \in TaskIds : GetRun(t)
    \/ \E t \in TaskIds : WriteRunTmp(t)
    \/ \E t \in TaskIds : RenameRun(t)
    \/ \E t \in TaskIds : ReadIndex(t)
    \/ \E t \in TaskIds : WriteIndexTmp(t)
    \/ \E t \in TaskIds : RenameIndex(t)
    \/ \E t \in TaskIds, o \in DispatchOutcomes : Dispatch(t, o)

SpecRace == InitRace /\ [][NextRace]_vars

----------------------------------------------------------------------------
(* SpecCrash: one store call at a time, one file-system operation per step, *)
(* and a call may be stopped between any two of its steps                   *)
(*                                                                         *)
(* The single caller is task slot CrashTask.  Kill stops the call in flight *)
(* where it is: the process is killed, or the pending file operation        *)
(* throws.  A rename over an existing destination may fail, and             *)
(* atomicWriteFile then unlinks the destination and renames again.          *)

MaxCrashCalls == 2

CrashRunIds == {"r1", "r2"}
CrashTask == "t1"

\* The calls of SpecCrash that go through getRun and persistRun.
CrashCalls ==
    { <<"updateRun", [status |-> Some("parsed"), current_step |-> Some("parse")]>>,
      <<"queueExecution", "phase1-planner">> }

\* The records index.json holds for run id q (idx: None or Some(sequence)).
IndexEntries(idx, q) ==
    IF idx = None THEN {}
    ELSE { idx[1][i] : i \in { j \in 1..Len(idx[1]) : idx[1][j].run_id = q } }

\* The index does not show run r as its document has it.
IndexStale(idx, file) ==
    file # None /\ IndexEntries(idx, file[1].run_id) # {toRunRecord(file[1])}

\* A store that earlier createRun calls (all at time 1) left behind.
InitCrash ==
    /\ \E existing \in SUBSET CrashRunIds :
          /\ runFile = [r \in CrashRunIds |->
                          IF r \in existing THEN Some(InitialRun(r, 1, Some("prd"))) ELSE None]
          /\ indexFile =
                IF existing = {} THEN None
                ELSE Some(sortRunsNewestFirst(
                        SelectSeq(<<toRunRecord(InitialRun("r2", 1, Some("prd"))),
                                    toRunRecord(InitialRun("r1", 1, Some("prd")))>>,
                                  LAMBDA rec : rec.run_id \in existing)))
    /\ runTmp = [r \in CrashRunIds |-> None]
    /\ indexTmp = None
    /\ clock = 1
    /\ last = NoCall
    /\ tasks = [t \in TaskIds |-> IdleTask]
    /\ runVersion = [r \in CrashRunIds |-> 0]
    /\ started = 0
    /\ found = NotFound
    /\ crashed = FALSE
    /\ artifactFile = NoArtifactFiles
    /\ manifest = NoManifests

CanStartCrashCall(t) ==
    /\ t = CrashTask
    /\ tasks[t].pc \in {"idle", "done"}
    /\ started < MaxCrashCalls

\* createRun up to its first file write: a new identity and the initial document.
StartCreateRun(t, r) ==
    /\ CanStartCrashCall(t)
    /\ runFile[r] = None /\ runTmp[r] = None
    /\ started' = started + 1
    /\ found' = [index |-> indexFile, stale |-> FALSE]
    /\ tasks' = [tasks EXCEPT ![t] =
          [IdleTask EXCEPT !.op = "createRun", !.call = "createRun", !.run = r,
                           !.pc = "writeRunTmp",
                           !.next = Some(InitialRun(r, clock, Some("prd")))]]
    /\ UNCHANGED <<fsVars, clock, last, runVersion, crashed, artVars>>

\* updateRun, queueExecution: the call is made, its getRun is the next step.
StartPersistCall(t, r, c) ==
    /\ CanStartCrashCall(t)
    /\ started' = started + 1
    /\ found' = [index |-> indexFile, stale |-> IndexStale(indexFile, runFile[r])]
    /\ tasks' = [tasks EXCEPT ![t] =
          [IdleTask EXCEPT !.op = c[1], !.call = c[1], !.run = r, !.arg = c[2],
                           !.pc = "getRun"]]
    /\ UNCHANGED <<fsVars, clock, last, runVersion, crashed, artVars>>

\* listRuns: the call is made, its readOrInitIndex is the next step.
StartListRuns(t) ==
    /\ CanStartCrashCall(t)
    /\ started' = started + 1
    /\ found' = [index |-> indexFile, stale |-> FALSE]
    /\ tasks' = [tasks EXCEPT ![t] =
          [IdleTask EXCEPT !.op = "listRuns", !.call = "listRuns", !.pc = "readIndex"]]
    /\ UNCHANGED <<fsVars, clock, last, runVersion, crashed, artVars>>

\* listRuns: the runs it returns for index content idx.
listRuns(idx) == sortRunsNewestFirst(readOrInitIndex(idx))

\* readOrInitIndex when index.json reads: persistRun / createRun go on to the
\* upsert, listRuns returns the sorted runs.
ReadIndexCrash(t) ==
    /\ t = CrashTask
    /\ indexFile # None
    /\ IF tasks[t].call = "listRuns"
       THEN /\ tasks[t].pc = "readIndex"
            /\ tasks' = [tasks EXCEPT ![t] =
                  [endCall(@, "none") EXCEPT !.nextRuns = listRuns(indexFile)]]
            /\ UNCHANGED <<fsVars, clock, last, runVersion, started, crashVars, artVars>>
       ELSE ReadIndex(t)

\* readOrInitIndex when index.json does not read: writeJsonAtomic(fresh), first
\* the temp file ...
InitIndexTmp(t) ==
    /\ t = CrashTask
    /\ tasks[t].pc = "readIndex"
    /\ indexFile = None
    /\ indexTmp' = Some(<<>>)
    /\ tasks' = [tasks EXCEPT ![t].pc = "initIndexRename"]
    /\ UNCHANGED <<runFile, runTmp, indexFile, clock, last, runVersion, started,
                   crashVars, artVars>>

\* ... then the rename; the caller goes on with the fresh index it wrote.
InitIndexRename(t) ==
    /\ t = CrashTask
    /\ tasks[t].pc = "initIndexRename"
    /\ indexFile' = indexTmp
    /\ indexTmp' = None
    /\ tasks' = [tasks EXCEPT ![t] =
          IF @.call = "listRuns"
          THEN [endCall(@, "none") EXCEPT !.nextRuns = sortRunsNewestFirst(<<>>)]
          ELSE [@ EXCEPT !.pc = "writeIndexTmp",
                         !.nextRuns = UpsertIndex(<<>>, toRunRecord(tasks[t].next[1]))]]
    /\ UNCHANGED <<runFile, runTmp, clock, last, runVersion, started, crashVars, artVars>>

\* atomicWriteFile(run.json): fs.rename throws EEXIST / EPERM / EACCES, which
\* only a rename over an existing destination does.
RenameRunFails(t) ==
    /\ t = CrashTask
    /\ tasks[t].pc = "renameRun"
    /\ runFile[tasks[t].run] # None
    /\ tasks' = [tasks EXCEPT ![t].pc = "unlinkRun"]
    /\ UNCHANGED <<fsVars, clock, last, runVersion, started, crashVars, artVars>>

\* atomicWriteFile(run.json), catch branch: fs.unlink(filePath).
UnlinkRun(t) ==
    /\ t = CrashTask
    /\ tasks[t].pc = "unlinkRun"
    /\ runFile' = [runFile EXCEPT ![tasks[t].run] = None]
    /\ tasks' = [tasks EXCEPT ![t].pc = "renameRunAgain"]
    /\ UNCHANGED <<runTmp, indexFile, indexTmp, clock, last, runVersion, started,
                   crashVars, artVars>>

\* atomicWriteFile(run.json), catch branch: the second fs.rename.
RenameRunAgain(t) ==
    /\ t = CrashTask
    /\ tasks[t].pc = "renameRunAgain"
    /\ runFile' = [runFile EXCEPT ![tasks[t].run] = runTmp[tasks[t].run]]
    /\ runTmp' = [runTmp EXCEPT ![tasks[t].run] = None]
    /\ runVersion' = [runVersion EXCEPT ![tasks[t].run] = @ + 1]
    /\ tasks' = [tasks EXCEPT ![t].pc = "readIndex"]
    /\ UNCHANGED <<indexFile, indexTmp, clock, last, started, crashVars, artVars>>

\* atomicWriteFile(index.json): fs.rename throws EEXIST / EPERM / EACCES.
RenameIndexFails(t) ==
    /\ t = CrashTask
    /\ tasks[t].pc = "renameIndex"
    /\ indexFile # None
    /\ tasks' = [tasks EXCEPT ![t].pc = "unlinkIndex"]
    /\ UNCHANGED <<fsVars, clock, last, runVersion, started, crashVars, artVars>>

\* atomicWriteFile(index.json), catch branch: fs.unlink(filePath).
UnlinkIndex(t) ==
    /\ t = CrashTask
    /\ tasks[t].pc = "unlinkIndex"
    /\ indexFile' = None
    /\ tasks' = [tasks EXCEPT ![t].pc = "renameIndexAgain"]
    /\ UNCHANGED <<runFile, runTmp, indexTmp, clock, last, runVersion, started,
                   crashVars, artVars>>

\* atomicWriteFile(index.json), catch branch: the second fs.rename; the call
\* returns.
RenameIndexAgain(t) ==
    /\ t = CrashTask
    /\ tasks[t].pc = "renameIndexAgain"
    /\ indexFile' = indexTmp
    /\ indexTmp' = None
    /\ tasks' = [tasks EXCEPT ![t] = endCall(@, "none")]
    /\ UNCHANGED <<runFile, runTmp, clock, last, runVersion, started, crashVars, artVars>>

\* The call in flight stops where it is; the files stay as its completed
\* steps left them.
Kill(t) ==
    /\ t = CrashTask
    /\ tasks[t].pc \notin {"idle", "done"}
    /\ tasks' = [tasks EXCEPT ![t] = endCall(@, "killed")]
    /\ crashed' = TRUE
    /\ UNCHANGED <<fsVars, clock, last, runVersion, started, found, artVars>>

NextCrash ==
    \/ TickRace
    \/ \E r \in CrashRunIds : StartCreateRun(CrashTask, r)
    \/ \E r \in CrashRunIds, c \in CrashCalls : StartPersistCall(CrashTask, r, c)
    \/ StartListRuns(CrashTask)
    \/ GetRun(CrashTask)
    \/ WriteRunTmp(CrashTask)
    \/ RenameRun(CrashTask)
    \/ RenameRunFails(CrashTask)
    \/ UnlinkRun(CrashTask)
    \/ RenameRunAgain(CrashTask)
    \/ ReadIndexCrash(CrashTask)
    \/ InitIndexTmp(CrashTask)
    \/ InitIndexRename(CrashTask)
    \/ WriteIndexTmp(CrashTask)
    \/ RenameIndex(CrashTask)
    \/ RenameIndexFails(CrashTask)
    \/ UnlinkIndex(CrashTask)
    \/ RenameIndexAgain(CrashTask)
    \/ Kill(CrashTask)

SpecCrash == InitCrash /\ [][NextCrash]_vars

----------------------------------------------------------------------------
(* SpecTwoRuns: two callers, each with a run of its own, whose store calls  *)
(* interleave at every await; index.json is the one file they share         *)

\* The run a caller works on.
RunOfTask(t) == IF t = "t1" THEN "r1" ELSE "r2"

\* The stores of InitCrash in which index.json exists.
InitTwoRuns ==
    /\ InitCrash
    /\ indexFile # None

\* createRun up to its first file write: a new identity and the initial document.
StartCreateRunOn(t) ==
    /\ tasks[t].pc \in {"idle", "done"}
    /\ started < MaxStarted
    /\ runFile[RunOfTask(t)] = None /\ runTmp[RunOfTask(t)] = None
    /\ started' = started + 1
    /\ tasks' = [tasks EXCEPT ![t] =
          [IdleTask EXCEPT !.op = "createRun", !.call = "createRun",
                           !.run = RunOfTask(t), !.pc = "writeRunTmp",
                           !.next = Some(InitialRun(RunOfTask(t), clock, Some("prd")))]]
    /\ UNCHANGED <<fsVars, clock, last, runVersion, crashVars, artVars>>

\* updateRun, queueExecution: the call is made, its getRun is the next step.
StartPersistCallOn(t, c) ==
    /\ tasks[t].pc \in {"idle", "done"}
    /\ started < MaxStarted
    /\ started' = started + 1
    /\ tasks' = [tasks EXCEPT ![t] =
          [IdleTask EXCEPT !.op = c[1], !.call = c[1], !.run = RunOfTask(t),
                           !.arg = c[2], !.pc = "getRun"]]
    /\ UNCHANGED <<fsVars, clock, last, runVersion, crashVars, artVars>>

NextTwoRuns ==
    \/ TickRace
    \/ \E t \in TaskIds : StartCreateRunOn(t)
    \/ \E t \in TaskIds, c \in CrashCalls : StartPersistCallOn(t, c)
    \/ \E t \in TaskIds : GetRun(t)
    \/ \E t \in TaskIds : WriteRunTmp(t)
    \/ \E t \in TaskIds : RenameRun(t)
    \/ \E t \in TaskIds : ReadIndex(t)
    \/ \E t \in TaskIds : WriteIndexTmp(t)
    \/ \E t \in TaskIds : RenameIndex(t)

SpecTwoRuns == InitTwoRuns /\ [][NextTwoRuns]_vars

----------------------------------------------------------------------------
(* SpecArtifacts: the artifact calls of a run, and every store call made   *)
(* with a run id that has no readable run.json                             *)

WriteArtifactArgs ==
    [name : ArtifactNames, payload : Payloads, content_type : ArtifactContentTypes]

\* The run-document calls, made here only while the run does not read.
MissingRunCalls ==
    { <<"updateRun", [status |-> Some("parsed"), current_step |-> Some("parse")]>>,
      <<"queueExecution", "phase1-planner">>,
      <<"markExecutionDispatched", None>>,
      <<"failExecution", "boom">>,
      <<"updateExecution", ExecutionPatch("running", None, None)>>,
      <<"updateRepoState", RepoState("repoA", Some("main"))>>,
      <<"updateDecompositionState", DecompositionState("approved", Some("lead"))>>,
      <<"updateArchitectureChat", ArchitectureChatState(<<"m1">>)>>,
      <<"updateImplementationState", ImplementationState(<<"i1">>)>> }

\* No run yet, or a run.json left behind that no longer parses.
InitArtifacts ==
    /\ runFile \in [RunIds -> {None, Some(Unreadable)}]
    /\ runTmp = [r \in RunIds |-> None]
    /\ indexFile = None
    /\ indexTmp = None
    /\ clock = 1
    /\ last = NoCall
    /\ tasks = [t \in TaskIds |-> IdleTask]
    /\ runVersion = [r \in RunIds |-> 0]
    /\ started = 0
    /\ found = NotFound
    /\ crashed = FALSE
    /\ artifactFile = NoArtifactFiles
    /\ manifest = NoManifests

ArtifactCall(op, r, arg, out) ==
    /\ last' = [op |-> op, run |-> r, arg |-> arg, err |-> out.err, from |-> "none",
                result |-> out.result]
    /\ artifactFile' = [artifactFile EXCEPT ![r] = out.files]
    /\ manifest' = [manifest EXCEPT ![r] = out.manifest]
    /\ UNCHANGED <<fsVars, clock, raceVars, crashVars>>

writeArtifact(r, arg) ==
    ArtifactCall("writeArtifact", r, arg,
                 writeArtifactResult(runFile[r], artifactFile[r], manifest[r], arg, clock))

listArtifacts(r) ==
    ArtifactCall("listArtifacts", r, None,
                 listArtifactsResult(runFile[r], artifactFile[r], manifest[r]))

readArtifact(r, name) ==
    ArtifactCall("readArtifact", r, name,
                 readArtifactResult(runFile[r], artifactFile[r], manifest[r], name))

CallOnMissingRun(r, c) ==
    /\ ~Readable(runFile[r])
    /\ StoreCall(c[1], r, c[2])

NextArtifacts ==
    \/ Tick
    \/ \E r \in RunIds : createRun(r, Some("prd"))
    \/ \E r \in RunIds, arg \in WriteArtifactArgs : writeArtifact(r, arg)
    \/ \E r \in RunIds : listArtifacts(r)
    \/ \E r \in RunIds, name \in ArtifactNames : readArtifact(r, name)
    \/ \E r \in RunIds, c \in MissingRunCalls : CallOnMissingRun(r, c)

SpecArtifacts == InitArtifacts /\ [][NextArtifacts]_vars

----------------------------------------------------------------------------
(* SpecArtifactCrash: writeArtifact one file-system operation per step, by  *)
(* the single caller CrashTask; the call may be stopped between any two of  *)
(* its steps, and a rename over an existing file may fail, after which      *)
(* atomicWriteFile unlinks the destination and renames again.  The temp     *)
(* file of a write is what the task holds in `next` and `nextRuns`.         *)

\* writeArtifact up to the temp-file write of the body: getRun, ensureDir, the
\* filename, created_at and the text.
StartWriteArtifact(t, r, arg) ==
    /\ CanStartCrashCall(t)
    /\ started' = started + 1
    /\ tasks' = [tasks EXCEPT ![t] =
          IF ~Readable(runFile[r])
          THEN endCall([IdleTask EXCEPT !.op = "writeArtifact", !.call = "writeArtifact",
                                        !.run = r, !.arg = arg], "RunNotFoundError")
          ELSE [IdleTask EXCEPT
                  !.op = "writeArtifact", !.call = "writeArtifact", !.run = r,
                  !.arg = arg, !.pc = "renameBody",
                  !.next = Some(ArtifactMetadata(arg.name, arg.content_type,
                                                 arg.payload, clock))]]
    /\ UNCHANGED <<fsVars, clock, last, runVersion, crashVars, artVars>>

\* atomicWriteFile(body): fs.rename(tmpPath, filePath), which may throw EEXIST /
\* EPERM / EACCES over an existing file.
RenameBody(t, fails) ==
    /\ tasks[t].pc = "renameBody"
    /\ LET r == tasks[t].run
           f == tasks[t].next[1].filename
       IN IF fails
          THEN /\ artifactFile[r][f] # None
               /\ tasks' = [tasks EXCEPT ![t].pc = "unlinkBody"]
               /\ UNCHANGED artVars
          ELSE /\ artifactFile' = [artifactFile EXCEPT ![r][f] =
                     Some(Serialize(tasks[t].arg.content_type, tasks[t].arg.payload))]
               /\ tasks' = [tasks EXCEPT ![t].pc = "readManifest"]
               /\ UNCHANGED manifest
    /\ UNCHANGED <<fsVars, clock, last, runVersion, started, crashVars>>

\* atomicWriteFile(body), catch branch: fs.unlink(filePath).
UnlinkBody(t) ==
    /\ tasks[t].pc = "unlinkBody"
    /\ artifactFile' = [artifactFile EXCEPT ![tasks[t].run][tasks[t].next[1].filename] = None]
    /\ tasks' = [tasks EXCEPT ![t].pc = "renameBodyAgain"]
    /\ UNCHANGED <<fsVars, clock, last, runVersion, started, crashVars, manifest>>

\* atomicWriteFile(body), catch branch: the second fs.rename.
RenameBodyAgain(t) ==
    /\ tasks[t].pc = "renameBodyAgain"
    /\ artifactFile' = [artifactFile EXCEPT ![tasks[t].run][tasks[t].next[1].filename] =
          Some(Serialize(tasks[t].arg.content_type, tasks[t].arg.payload))]
    /\ tasks' = [tasks EXCEPT ![t].pc = "readManifest"]
    /\ UNCHANGED <<fsVars, clock, last, runVersion, started, crashVars, manifest>>

\* readOrInitArtifactsIndex (a missing manifest is written as the empty one),
\* the upsert and the sort, and the temp-file write of the manifest.
ReadManifest(t) ==
    /\ tasks[t].pc = "readManifest"
    /\ manifest' = [manifest EXCEPT ![tasks[t].run] =
          Some(readOrInitArtifactsIndex(manifest[tasks[t].run]))]
    /\ tasks' = [tasks EXCEPT ![t] =
          [@ EXCEPT !.pc = "renameManifest",
                    !.nextRuns = nextArtifacts(readOrInitArtifactsIndex(manifest[tasks[t].run]),
                                               tasks[t].next[1])]]
    /\ UNCHANGED <<fsVars, clock, last, runVersion, started, crashVars, artifactFile>>

\* atomicWriteFile(manifest): fs.rename(tmpPath, filePath), which may throw over
\* the existing manifest; otherwise the call returns.
RenameManifest(t, fails) ==
    /\ tasks[t].pc = "renameManifest"
    /\ IF fails
       THEN /\ tasks' = [tasks EXCEPT ![t].pc = "unlinkManifest"]
            /\ UNCHANGED artVars
       ELSE /\ manifest' = [manifest EXCEPT ![tasks[t].run] = Some(tasks[t].nextRuns)]
            /\ tasks' = [tasks EXCEPT ![t] = endCall(@, "none")]
            /\ UNCHANGED artifactFile
    /\ UNCHANGED <<fsVars, clock, last, runVersion, started, crashVars>>

\* atomicWriteFile(manifest), catch branch: fs.unlink(filePath).
UnlinkManifest(t) ==
    /\ tasks[t].pc = "unlinkManifest"
    /\ manifest' = [manifest EXCEPT ![tasks[t].run] = None]
    /\ tasks' = [tasks EXCEPT ![t].pc = "renameManifestAgain"]
    /\ UNCHANGED <<fsVars, clock, last, runVersion, started, crashVars, artifactFile>>

\* atomicWriteFile(manifest), catch branch: the second fs.rename; the call
\* returns.
RenameManifestAgain(t) ==
    /\ tasks[t].pc = "renameManifestAgain"
    /\ manifest' = [manifest EXCEPT ![tasks[t].run] = Some(tasks[t].nextRuns)]
    /\ tasks' = [tasks EXCEPT ![t] = endCall(@, "none")]
    /\ UNCHANGED <<fsVars, clock, last, runVersion, started, crashVars, artifactFile>>

NextArtifactCrash ==
    \/ TickRace
    \/ tasks[CrashTask].pc \in {"idle", "done"} /\ \E r \in RunIds : createRun(r, Some("prd"))
    \/ \E r \in RunIds, arg \in WriteArtifactArgs : StartWriteArtifact(CrashTask, r, arg)
    \/ \E fails \in BOOLEAN : RenameBody(CrashTask, fails)
    \/ UnlinkBody(CrashTask)
    \/ RenameBodyAgain(CrashTask)
    \/ ReadManifest(CrashTask)
    \/ \E fails \in BOOLEAN : RenameManifest(CrashTask, fails)
    \/ UnlinkManifest(CrashTask)
    \/ RenameManifestAgain(CrashTask)
    \/ Kill(CrashTask)

SpecArtifactCrash == Init /\ [][NextArtifactCrash]_vars

----------------------------------------------------------------------------
(* SpecSubState: every kind of store call on one run, each running to     *)
(* completion, with two values for the sub-documents that have optional   *)
(* keys                                                                    *)

\* The sub-state updates: <<method, key of the run document, value>>.
SubStateUpdates ==
    { <<"updateRepoState", "repo_state", RepoState("repoA", Some("main"))>>,
      <<"updateRepoState", "repo_state", RepoState("repoB", None)>>,
      <<"updateDecompositionState", "decomposition_state",
        DecompositionState("approved", Some("lead"))>>,
      <<"updateDecompositionState", "decomposition_state",
        DecompositionState("draft", None)>>,
      <<"updateArchitectureChat", "architecture_chat", ArchitectureChatState(<<"m1">>)>>,
      <<"updateImplementationState", "implementation_state", ImplementationState(<<"i1">>)>> }

SubStateArtifactArgs ==
    { [name |-> <<"p", "_">>, payload |-> "v1", content_type |-> "application/json"] }

NextSubState ==
    \/ Tick
    \/ \E r \in RunIds, input \in PlannerInputs : createRun(r, input)
    \/ \E r \in RunIds :
          updateRun(r, [status |-> Some("parsed"), current_step |-> Some("parse")])
    \/ \E r \in RunIds : queueExecution(r, "phase1-planner")
    \/ \E r \in RunIds : markExecutionDispatched(r)
    \/ \E r \in RunIds : failExecution(r, "boom")
    \/ \E r \in RunIds, c \in SubStateUpdates : StoreCall(c[1], r, c[3])
    \/ \E r \in RunIds, arg \in SubStateArtifactArgs : writeArtifact(r, arg)

SpecSubState == Init /\ [][NextSubState]_vars

----------------------------------------------------------------------------
(* SpecDispatch: dispatchRun requests of the controller, one at a time and *)
(* one await per step; between two requests the other callers of the store *)
(* write the architecture pack and the repo and decomposition states        *)

DispatchTask == "t1"

DispatchWorkflowNames ==
    { "phase1-planner", "phase1-architecture-refinement", "phase2-repo-provision",
      "phase2-decomposition", "phase2-implementation" }

\* err.message of the errors the dispatch clients throw.
ErrorMessageOf(e) ==
    CASE e = "GitHubActionsDispatchError" -> "GitHub workflow dispatch failed with 422"
      [] e = "GitHubActionsConfigError" -> "GitHub workflow dispatch requires a token"
      [] e = "LocalWorkflowRunnerError" -> "Failed to start local workflow runner"
      [] OTHER -> "error"

\* What the external dispatch may do: return, or throw one of the errors of
\* the client in use, or any other error (fetch rejecting, mkdirSync, openSync
\* or spawn throwing).
DispatchOutcomesOf(backend) ==
    IF backend = "local_process"
    THEN {"none", "LocalWorkflowRunnerError", "Error"}
    ELSE {"none", "GitHubActionsConfigError", "GitHubActionsDispatchError", "Error"}

\* Faulty variant: phase2-implementation asks for the architecture pack only.
prerequisiteErrorPackOnly(workflowName, file, files, man) ==
    IF workflowName = "phase1-planner" THEN "none"
    ELSE IF readArtifactResult(file, files, man, ArchitecturePackName).err # "none"
    THEN readArtifactResult(file, files, man, ArchitecturePackName).err
    ELSE IF workflowName = "phase2-decomposition" /\ file[1].repo_state = None
    THEN "RunConflictError"
    ELSE "none"

\* The checks of dispatchRun before it queues: the error thrown, or "none".
prerequisiteError(workflowName, file, files, man) ==
    IF workflowName = "phase1-planner" THEN "none"
    ELSE IF readArtifactResult(file, files, man, ArchitecturePackName).err # "none"
    THEN readArtifactResult(file, files, man, ArchitecturePackName).err
    ELSE IF workflowName \in {"phase2-implementation", "phase2-decomposition"}
            /\ file[1].repo_state = None
    THEN "RunConflictError"
    ELSE IF workflowName = "phase2-implementation"
            /\ (\/ file[1].decomposition_state = None
                \/ file[1].decomposition_state[1].status # "approved")
    THEN "RunConflictError"
    ELSE "none"

\* The catch block for an error that needs no store call: the reply sent, or
\* the error thrown on.
exitDispatch(task, e) ==
    [task EXCEPT !.pc = "done", !.err = e,
                 !.reply = CASE e = "RunNotFoundError" -> "404"
                             [] e = "RunConflictError" -> "409"
                             [] e = "ZodError" -> "400"
                             [] OTHER -> "rethrown"]

\* Faulty variant: only GitHubActionsDispatchError fails the queued execution.
afterDispatchFailsDispatchErrorOnly(task, outcome) ==
    IF outcome = "none"
    THEN [task EXCEPT !.dispatched = TRUE, !.pc = "mark"]
    ELSE IF outcome = "GitHubActionsDispatchError"
    THEN [task EXCEPT !.err = outcome, !.pc = "fail"]
    ELSE IF outcome \in {"GitHubActionsConfigError", "LocalWorkflowRunnerError"}
    THEN [task EXCEPT !.err = outcome, !.pc = "done", !.reply = "500"]
    ELSE exitDispatch(task, outcome)

\* The request after the external dispatch returned or threw `outcome`.
afterDispatch(task, outcome) ==
    IF outcome = "none"
    THEN [task EXCEPT !.dispatched = TRUE, !.pc = "mark"]
    ELSE IF outcome = "GitHubActionsDispatchError"
    THEN [task EXCEPT !.err = outcome, !.pc = "fail"]
    ELSE IF outcome \in {"GitHubActionsConfigError", "LocalWorkflowRunnerError"}
    THEN (IF task.queued
          THEN [task EXCEPT !.err = outcome, !.pc = "fail"]
          ELSE [task EXCEPT !.err = outcome, !.pc = "done", !.reply = "500"])
    ELSE exitDispatch(task, outcome)

NoRequestInFlight == tasks[DispatchTask].pc = "idle"

\* The request arrives: params parsed, run id, workflow name and backend fixed.
StartDispatch(t, r, workflowName, backend) ==
    /\ tasks[t].pc = "idle"
    /\ tasks' = [tasks EXCEPT ![t] =
          [IdleTask EXCEPT !.op = "dispatchRun", !.call = "readArtifact", !.run = r,
                           !.arg = [workflow_name |-> workflowName, backend |-> backend],
                           !.pc = "prerequisites"]]
    /\ UNCHANGED <<fsVars, clock, last, runVersion, started, crashVars, artVars>>

\* readArtifact(runId, "architecture_pack"), getRun and the checks on the run.
CheckPrerequisites(t) ==
    /\ tasks[t].pc = "prerequisites"
    /\ LET r == tasks[t].run
           w == tasks[t].arg.workflow_name
           e == prerequisiteError(w, runFile[r], artifactFile[r], manifest[r])
       IN /\ tasks' = [tasks EXCEPT ![t] =
                IF e = "none" THEN [@ EXCEPT !.call = "queueExecution", !.pc = "queue"]
                ELSE exitDispatch(@, e)]
          /\ manifest' = [manifest EXCEPT ![r] =
                IF w = "phase1-planner" THEN @
                ELSE readArtifactResult(runFile[r], artifactFile[r], @,
                                        ArchitecturePackName).manifest]
    /\ UNCHANGED <<fsVars, clock, last, runVersion, started, crashVars, artifactFile>>

\* runStore.queueExecution(runId, workflowName, backend); queued = true.
QueueDispatch(t) ==
    /\ tasks[t].pc = "queue"
    /\ LET r == tasks[t].run
           res == storeCallResult("queueExecution", tasks[t].arg.workflow_name,
                                  runFile[r], clock)
       IN /\ IF res.err = "none" THEN persistRun(res.run[1]) ELSE UNCHANGED fsVars
          /\ tasks' = [tasks EXCEPT ![t] =
                IF res.err = "none"
                THEN [@ EXCEPT !.queued = TRUE, !.call = "dispatchWorkflow", !.pc = "dispatch"]
                ELSE exitDispatch(@, res.err)]
    /\ UNCHANGED <<clock, last, runVersion, started, crashVars, artVars>>

\* localWorkflowRunner.dispatchWorkflow or new GitHubActionsClient() and its
\* dispatchWorkflow.
ExternalDispatch(t, outcome) ==
    /\ tasks[t].pc = "dispatch"
    /\ outcome \in DispatchOutcomesOf(tasks[t].arg.backend)
    /\ tasks' = [tasks EXCEPT ![t] = afterDispatch(@, outcome)]
    /\ UNCHANGED <<fsVars, clock, last, runVersion, started, crashVars, artVars>>

\* runStore.markExecutionDispatched(runId) and the reply.
MarkDispatched(t) ==
    /\ tasks[t].pc = "mark"
    /\ LET r == tasks[t].run
           res == storeCallResult("markExecutionDispatched", None, runFile[r], clock)
       IN /\ IF res.err = "none" THEN persistRun(res.run[1]) ELSE UNCHANGED fsVars
          /\ tasks' = [tasks EXCEPT ![t] =
                IF res.err = "none"
                THEN [@ EXCEPT !.pc = "done", !.reply = "200"]
                ELSE exitDispatch(@, res.err)]
    /\ UNCHANGED <<clock, last, runVersion, started, crashVars, artVars>>

\* The catch block: runStore.failExecution(runId, err.message) and the reply.
FailQueued(t) ==
    /\ tasks[t].pc = "fail"
    /\ LET r == tasks[t].run
           res == storeCallResult("failExecution", ErrorMessageOf(tasks[t].err),
                                  runFile[r], clock)
       IN /\ IF res.err = "none" THEN persistRun(res.run[1]) ELSE UNCHANGED fsVars
          /\ tasks' = [tasks EXCEPT ![t] =
                IF res.err = "none"
                THEN [@ EXCEPT !.pc = "done",
                               !.reply = IF tasks[t].err = "GitHubActionsDispatchError"
                                         THEN "502" ELSE "500"]
                ELSE [@ EXCEPT !.pc = "done", !.err = res.err, !.reply = "rethrown"]]
    /\ UNCHANGED <<clock, last, runVersion, started, crashVars, artVars>>

\* The reply is sent (or the error handed to the framework); the request and
\* its locals are gone.
EndDispatch(t) ==
    /\ tasks[t].pc = "done"
    /\ tasks' = [tasks EXCEPT ![t] = IdleTask]
    /\ UNCHANGED <<fsVars, clock, last, runVersion, started, crashVars, artVars>>

NextDispatch ==
    \/ Tick
    \/ NoRequestInFlight /\ \E r \in RunIds : createRun(r, Some("prd"))
    \/ NoRequestInFlight /\ \E r \in RunIds :
          writeArtifact(r, [name |-> ArchitecturePackName, payload |-> "v1",
                            content_type |-> "application/json"])
    \/ NoRequestInFlight /\ \E r \in RunIds, v \in RepoStates : updateRepoState(r, v)
    \/ NoRequestInFlight /\ \E r \in RunIds :
          \E v \in {DecompositionState("draft", None),
                     DecompositionState("approved", Some("lead"))} :
             updateDecompositionState(r, v)
    \/ \E r \in RunIds, w \in DispatchWorkflowNames :
          \E b \in {"local_process", "github_actions"} :
             StartDispatch(DispatchTask, r, w, b)
    \/ CheckPrerequisites(DispatchTask)
    \/ QueueDispatch(DispatchTask)
    \/ \E o \in {"none", "LocalWorkflowRunnerError", "GitHubActionsConfigError",
                  "GitHubActionsDispatchError", "Error"} :
          ExternalDispatch(DispatchTask, o)
    \/ MarkDispatched(DispatchTask)
    \/ FailQueued(DispatchTask)
    \/ EndDispatch(DispatchTask)

SpecDispatch == Init /\ [][NextDispatch]_vars

----------------------------------------------------------------------------
(* SpecAgent: one worker at a time on a dispatched execution.  The agent    *)
(* reports running, does its work, then reports succeeded; an error thrown  *)
(* inside its try block is reported as failed and thrown on.  Each of its   *)
(* API calls runs to completion before its next step.                       *)

AgentTask == "t1"

AgentNames == {"runImplementationAgent", "runRepoProvisionAgent", "runDecompositionAgent"}

\* Messages of the errors a step of an agent may throw; an Error may carry an
\* empty message.
ThrownMessages == {"boom", ""}

\* A step returns (None) or throws an error with a message.
StepOutcomes == {None} \cup {Some(m) : m \in ThrownMessages}

\* UpdateExecutionRequestSchema.parse(body) in the controller.
UpdateExecutionRequestError(patch) ==
    IF patch.status \notin {"running", "succeeded", "failed"} THEN "ZodError"
    ELSE IF patch.error_message # None /\ patch.error_message[1] = "" THEN "ZodError"
    ELSE "none"

\* The error of PATCH /runs/:runId/execution with this body ("none": 200).
apiUpdateExecutionError(r, patch) ==
    IF UpdateExecutionRequestError(patch) # "none"
    THEN UpdateExecutionRequestError(patch)
    ELSE storeCallResult("updateExecution", patch, runFile[r], clock).err

\* api.updateExecution(runId, patch): the handler persists when nothing throws.
apiUpdateExecution(r, patch) ==
    IF apiUpdateExecutionError(r, patch) = "none"
    THEN persistRun(storeCallResult("updateExecution", patch, runFile[r], clock).run[1])
    ELSE UNCHANGED fsVars

\* The sub-state update an agent makes once its work is done.
AgentUpdate(agent) ==
    CASE agent = "runImplementationAgent" ->
            <<"updateImplementationState", ImplementationState(<<"i1">>)>>
      [] agent = "runRepoProvisionAgent" ->
            <<"updateRepoState", RepoState("repoA", Some("main"))>>
      [] agent = "runDecompositionAgent" ->
            <<"updateDecompositionState", DecompositionState("draft", None)>>

\* The worker process starts on a dispatched execution.
StartAgent(t, r, agent) ==
    /\ tasks[t].pc = "idle"
    /\ statusRead(runFile[r]) = "dispatched"
    /\ tasks' = [tasks EXCEPT ![t] =
          [IdleTask EXCEPT !.op = agent, !.run = r, !.pc = "setup"]]
    /\ UNCHANGED <<fsVars, clock, last, crashVars, artVars, runVersion, started>>

\* The statements before the try block: the API client and, in
\* runRepoProvisionAgent, new GitHubRepoClient(), which throws without a
\* GitHub token.
AgentSetup(t, outcome) ==
    /\ tasks[t].pc = "setup"
    /\ outcome # None => tasks[t].op = "runRepoProvisionAgent"
    /\ tasks' = [tasks EXCEPT ![t] =
          IF outcome = None
          THEN [@ EXCEPT !.pc = "prepare"]
          ELSE [@ EXCEPT !.pc = "done", !.err = "Error", !.arg = outcome[1]]]
    /\ UNCHANGED <<fsVars, clock, last, crashVars, artVars, runVersion, started>>

\* The steps of the try block before updateExecution(running): api.getRun and
\* the repo_state check (implementation), api.getRun and resolveRepoTarget
\* (repo provision), none (decomposition).
AgentPrepare(t, outcome) ==
    /\ tasks[t].pc = "prepare"
    /\ tasks[t].op = "runDecompositionAgent" => outcome = None
    /\ LET doc == runFile[tasks[t].run][1]
           thrown == IF /\ outcome = None
                        /\ tasks[t].op = "runImplementationAgent"
                        /\ doc.repo_state = None
                     THEN Some("Target repository has not been resolved for this run.")
                     ELSE outcome
       IN tasks' = [tasks EXCEPT ![t] =
             IF thrown = None
             THEN [@ EXCEPT !.pc = "running"]
             ELSE [@ EXCEPT !.pc = "catch", !.arg = thrown[1]]]
    /\ UNCHANGED <<fsVars, clock, last, crashVars, artVars, runVersion, started>>

\* await api.updateExecution(runId, { status: "running", ... }) and
\* await api.updateExecution(runId, { status: "succeeded", ... }).
ReportStatus(t) ==
    /\ tasks[t].pc \in {"running", "succeeded"}
    /\ LET patch == ExecutionPatch(tasks[t].pc, None, None)
           e == apiUpdateExecutionError(tasks[t].run, patch)
       IN /\ apiUpdateExecution(tasks[t].run, patch)
          /\ tasks' = [tasks EXCEPT ![t] =
                IF e # "none"
                THEN [@ EXCEPT !.pc = "catch", !.arg = "PASS API request failed"]
                ELSE IF tasks[t].pc = "running"
                THEN [@ EXCEPT !.pc = "work"]
                ELSE [@ EXCEPT !.pc = "done"]]
    /\ UNCHANGED <<clock, last, crashVars, artVars, runVersion, started>>

\* The work between the two reports: the implementation agent checks the
\* decomposition state it read, every agent calls GitHub or the model and
\* uploads its artifacts (which leave run.json alone), and stores its
\* sub-state; any of it may throw.
AgentWork(t, outcome) ==
    /\ tasks[t].pc = "work"
    /\ LET r == tasks[t].run
           doc == runFile[r][1]
           thrown == IF /\ outcome = None
                        /\ tasks[t].op = "runImplementationAgent"
                        /\ \/ doc.decomposition_state = None
                           \/ doc.decomposition_state[1].status \notin {"approved", "synced"}
                     THEN Some("Decomposition must be approved before implementation issue sync can run.")
                     ELSE outcome
           call == AgentUpdate(tasks[t].op)
       IN IF thrown = None
          THEN /\ persistRun(storeCallResult(call[1], call[2], runFile[r], clock).run[1])
               /\ tasks' = [tasks EXCEPT ![t].pc = "succeeded"]
          ELSE /\ tasks' = [tasks EXCEPT ![t] = [@ EXCEPT !.pc = "catch", !.arg = thrown[1]]]
               /\ UNCHANGED fsVars
    /\ UNCHANGED <<clock, last, crashVars, artVars, runVersion, started>>

\* catch (error): api.updateExecution(runId, { status: "failed",
\* error_message: buildFailureMessage(error) }) inside a try whose catch is
\* empty, then throw error.
ReportFailed(t) ==
    /\ tasks[t].pc = "catch"
    /\ LET patch == ExecutionPatch("failed", Some(tasks[t].arg), None) IN
       /\ apiUpdateExecution(tasks[t].run, patch)
       /\ tasks' = [tasks EXCEPT ![t] =
             [@ EXCEPT !.pc = "done", !.err = "Error",
                       !.reply = apiUpdateExecutionError(tasks[t].run, patch)]]
    /\ UNCHANGED <<clock, last, crashVars, artVars, runVersion, started>>

\* The worker process has exited.
EndAgent(t) ==
    /\ tasks[t].pc = "done"
    /\ tasks' = [tasks EXCEPT ![t] = IdleTask]
    /\ UNCHANGED <<fsVars, clock, last, crashVars, artVars, runVersion, started>>

NextAgent ==
    \/ Tick
    \/ tasks[AgentTask].pc = "idle" /\ \E r \in RunIds : createRun(r, Some("prd"))
    \/ tasks[AgentTask].pc = "idle"
          /\ \E r \in RunIds, w \in {"phase2-implementation", "phase2-repo-provision"} :
                queueExecution(r, w)
    \/ tasks[AgentTask].pc = "idle" /\ \E r \in RunIds : markExecutionDispatched(r)
    \/ tasks[AgentTask].pc = "idle" /\ \E r \in RunIds, v \in RepoStates : updateRepoState(r, v)
    \/ tasks[AgentTask].pc = "idle"
          /\ \E r \in RunIds, v \in DecompositionStates : updateDecompositionState(r, v)
    \/ \E r \in RunIds, agent \in AgentNames : StartAgent(AgentTask, r, agent)
    \/ \E o \in StepOutcomes : AgentSetup(AgentTask, o)
    \/ \E o \in StepOutcomes : AgentPrepare(AgentTask, o)
    \/ ReportStatus(AgentTask)
    \/ \E o \in StepOutcomes : AgentWork(AgentTask, o)
    \/ ReportFailed(AgentTask)
    \/ EndAgent(AgentTask)

SpecAgent == Init /\ [][NextAgent]_vars

----------------------------------------------------------------------------
(* Properties of the store calls (specification Spec)                      *)

HasRun(r) == runFile[r] # None
Doc(r) == runFile[r][1]
HasExecution(r) == HasRun(r) /\ Doc(r).execution # None
Execution(r) == Doc(r).execution[1]

\* The step just taken was the store call `op` on run r.
Called(op, r) == last'.op = op /\ last'.run = r

\* The legal-transition table as the documentation states it.
LegalTransitions ==
    { <<"queued", "dispatched">>, <<"queued", "failed">>,
      <<"dispatched", "running">>, <<"dispatched", "failed">>,
      <<"running", "succeeded">>, <<"running", "failed">> }

\* C1: updateExecution with a pair (from, to) outside the legal-transition
\* table raises InvalidExecutionTransitionError and changes neither run.json
\* nor index.json.
C1_IllegalTransitionRejected ==
    [][\A r \in RunIds :
         (/\ Called("updateExecution", r)
          /\ HasExecution(r)
          /\ <<Execution(r).status, last'.arg.status>> \notin LegalTransitions)
         => (/\ last'.err = "InvalidExecutionTransitionError"
             /\ runFile' = runFile
             /\ indexFile' = indexFile)]_vars

C1_Witness ==
    /\ last.op = "updateExecution"
    /\ last.err = "InvalidExecutionTransitionError"
    /\ HasExecution(last.run)
    /\ Execution(last.run).status = "succeeded"
    /\ last.arg.status = "failed"

\* C2: queueExecution on a run whose execution is queued, dispatched or running
\* raises RunConflictError and leaves the run document unchanged.
C2_QueueOnActiveConflicts ==
    [][\A r \in RunIds :
         (/\ Called("queueExecution", r)
          /\ HasExecution(r)
          /\ Execution(r).status \in {"queued", "dispatched", "running"})
         => (/\ last'.err = "RunConflictError"
             /\ runFile' = runFile)]_vars

C2_Witness ==
    /\ last.op = "queueExecution"
    /\ last.err = "RunConflictError"
    /\ HasExecution(last.run)
    /\ Execution(last.run).status = "running"

\* C5: failExecution on a succeeded or failed execution raises RunConflictError
\* and leaves the execution as recorded (error_message and completed_at included).
C5_FailOnTerminalConflicts ==
    [][\A r \in RunIds :
         (/\ Called("failExecution", r)
          /\ HasExecution(r)
          /\ Execution(r).status \in {"succeeded", "failed"})
         => (/\ last'.err = "RunConflictError"
             /\ runFile' = runFile)]_vars

C5_Witness ==
    /\ last.op = "failExecution"
    /\ last.err = "RunConflictError"
    /\ HasExecution(last.run)
    /\ Execution(last.run).status = "failed"
    /\ Execution(last.run).error_message = Some("boom")
    /\ last.arg = "late"
    /\ Execution(last.run).completed_at # Some(clock)

\* C6: queueExecution on an existing run without planning input raises
\* RunConflictError, creates no execution and changes neither file.
C6_QueueWithoutInputConflicts ==
    [][\A r \in RunIds :
         (/\ Called("queueExecution", r)
          /\ HasRun(r)
          /\ Doc(r).input = None)
         => (/\ last'.err = "RunConflictError"
             /\ runFile' = runFile
             /\ indexFile' = indexFile)]_vars

C6_Witness ==
    /\ last.op = "queueExecution"
    /\ last.err = "RunConflictError"
    /\ HasRun(last.run)
    /\ Doc(last.run).input = None
    /\ Doc(last.run).execution = None

\* C7: updateExecution, markExecutionDispatched and failExecution on an existing
\* run without an execution raise RunConflictError and change nothing.
C7_NoExecutionConflicts ==
    [][\A r \in RunIds :
         (/\ \/ Called("updateExecution", r)
             \/ Called("markExecutionDispatched", r)
             \/ Called("failExecution", r)
          /\ HasRun(r)
          /\ Doc(r).execution = None)
         => (/\ last'.err = "RunConflictError"
             /\ runFile' = runFile
             /\ indexFile' = indexFile)]_vars

C7_Witness ==
    /\ last.op = "markExecutionDispatched"
    /\ last.err = "RunConflictError"
    /\ HasRun(last.run)
    /\ Doc(last.run).execution = None

\* C8: queueExecution after a succeeded or failed execution succeeds and stores
\* a fresh execution: status queued, requested_at = now, and no started_at,
\* completed_at, error_message, external run id or URL.
C8_QueueAfterTerminalReplaces ==
    [][\A r \in RunIds :
         (/\ Called("queueExecution", r)
          /\ HasExecution(r)
          /\ Doc(r).input # None
          /\ Execution(r).status \in {"succeeded", "failed"})
         => (/\ last'.err = "none"
             /\ runFile'[r] # None
             /\ runFile'[r][1].execution =
                  Some([ backend        |-> "github_actions",
                         workflow_name  |-> last'.arg,
                         status         |-> "queued",
                         github_run_id  |-> None,
                         github_run_url |-> None,
                         requested_at   |-> clock,
                         started_at     |-> None,
                         completed_at   |-> None,
                         error_message  |-> None ]))]_vars

C8_Witness ==
    /\ last.op = "queueExecution"
    /\ last.err = "none"
    /\ last.from = "succeeded"
    /\ clock > 1
    /\ Execution(last.run).status = "queued"
    /\ Execution(last.run).requested_at = clock

\* C9: started_at is absent while the execution is queued or dispatched, present
\* while it is running or succeeded, stamped by the transition into running, and
\* once present it does not change until the execution is replaced.
C9_StartedAtShape ==
    \A r \in RunIds :
       HasExecution(r) =>
          /\ Execution(r).status \in {"queued", "dispatched"} => Execution(r).started_at = None
          /\ Execution(r).status \in {"running", "succeeded"} => Execution(r).started_at # None

C9_StartedAtStep ==
    \A r \in RunIds :
       (HasExecution(r) /\ runFile'[r] # None /\ runFile'[r][1].execution # None
        /\ ~(Called("queueExecution", r) /\ last'.err = "none"))
       => LET before == Execution(r)
              after == runFile'[r][1].execution[1]
          IN /\ before.started_at # None => after.started_at = before.started_at
             /\ (before.started_at = None /\ after.started_at # None)
                => (/\ before.status = "dispatched"
                    /\ after.status = "running"
                    /\ after.started_at = Some(clock))

C9_StartedAtSetOnce == [](C9_StartedAtShape) /\ [][C9_StartedAtStep]_vars

C9_Witness ==
    /\ last.op = "updateExecution"
    /\ last.err = "none"
    /\ Execution(last.run).status = "succeeded"
    /\ Execution(last.run).started_at = Some(1)
    /\ clock = 2

\* C10: a stored execution has completed_at exactly when its status is succeeded
\* or failed, and completed_at is written only by the transition into it.
C10_CompletedAtShape ==
    \A r \in RunIds :
       HasExecution(r) =>
          (Execution(r).completed_at # None <=> Execution(r).status \in {"succeeded", "failed"})

C10_CompletedAtStep ==
    \A r \in RunIds :
       (HasExecution(r) /\ runFile'[r] # None /\ runFile'[r][1].execution # None
        /\ ~(Called("queueExecution", r) /\ last'.err = "none"))
       => LET before == Execution(r)
              after == runFile'[r][1].execution[1]
          IN after.completed_at # before.completed_at
             => (/\ before.status \notin {"succeeded", "failed"}
                 /\ after.status \in {"succeeded", "failed"}
                 /\ after.completed_at = Some(clock)
                 /\ \/ Called("updateExecution", r)
                    \/ Called("failExecution", r))

C10_CompletedAtIffTerminal == [](C10_CompletedAtShape) /\ [][C10_CompletedAtStep]_vars

C10_Witness ==
    /\ last.op = "failExecution"
    /\ last.err = "none"
    /\ Execution(last.run).status = "failed"
    /\ Execution(last.run).completed_at = Some(clock)
    /\ Execution(last.run).started_at = None

\* C11: a stored execution carries error_message only while its status is
\* failed; every successful updateExecution / markExecutionDispatched to a status
\* other than failed stores no error_message (also when the patch carries one),
\* and a freshly queued execution has none.
C11_ErrorMessageShape ==
    \A r \in RunIds :
       HasExecution(r) =>
          (Execution(r).error_message # None => Execution(r).status = "failed")

C11_ErrorMessageStep ==
    \A r \in RunIds :
       (/\ last'.run = r
        /\ last'.op \in {"updateExecution", "markExecutionDispatched",
                         "failExecution", "queueExecution"}
        /\ last'.err = "none")
       => /\ runFile'[r] # None
          /\ runFile'[r][1].execution # None
          /\ runFile'[r][1].execution[1].status # "failed"
                => runFile'[r][1].execution[1].error_message = None

C11_ErrorMessageOnlyWhenFailed ==
    [](C11_ErrorMessageShape) /\ [][C11_ErrorMessageStep]_vars

C11_Witness ==
    /\ last.op = "updateExecution"
    /\ last.err = "none"
    /\ last.arg.status = "running"
    /\ last.arg.error_message = Some("boom")
    /\ Execution(last.run).status = "running"
    /\ Execution(last.run).error_message = None

\* C12: step_timestamps is write-once per key: a key that is present keeps its
\* value through every store call; updateRun with a step already present
\* leaves step_timestamps as it is, and updateRun with a new step adds exactly
\* that key, stamped with the current time.
C12_StepTimestampsWriteOnce ==
    [][\A r \in RunIds :
         HasRun(r) =>
            /\ runFile'[r] # None
            /\ \A s \in RUN_STEPS :
                  Doc(r).step_timestamps[s] # None
                     => runFile'[r][1].step_timestamps[s] = Doc(r).step_timestamps[s]
            /\ \A s \in RUN_STEPS :
                  (Doc(r).step_timestamps[s] = None
                   /\ runFile'[r][1].step_timestamps[s] # None)
                     => /\ Called("updateRun", r)
                        /\ last'.arg.current_step = Some(s)
                        /\ runFile'[r][1].step_timestamps[s] = Some(clock)]_vars

C12_Witness ==
    /\ last.op = "updateRun"
    /\ last.err = "none"
    /\ last.arg.current_step = Some("parse")
    /\ clock = 2
    /\ Doc(last.run).step_timestamps["parse"] = Some(1)
    /\ Doc(last.run).last_updated_at = 2

\* C34: a successful updateExecution changes only the execution sub-document
\* and last_updated_at: status, current_step, step_timestamps, input and the
\* other sub-states of the run stay as they were, and within the execution
\* backend and requested_at stay, and workflow_name and the external run id
\* and URL change only to what the patch carries.
C34_UpdateExecutionFrame ==
    [][\A r \in RunIds :
         (Called("updateExecution", r) /\ last'.err = "none" /\ last' # last)
         => LET before == Doc(r)
                after == runFile'[r][1]
                patch == last'.arg
            IN /\ after.execution # None
               /\ after = [before EXCEPT !.execution = after.execution,
                                          !.last_updated_at = clock]
               /\ after.execution[1].status = patch.status
               /\ after.execution[1].backend = Execution(r).backend
               /\ after.execution[1].requested_at = Execution(r).requested_at
               /\ after.execution[1].workflow_name = Execution(r).workflow_name
               /\ after.execution[1].github_run_id
                     = Coalesce(patch.github_run_id, Execution(r).github_run_id)
               /\ after.execution[1].github_run_url
                     = Coalesce(patch.github_run_url, Execution(r).github_run_url)]_vars

C34_Witness ==
    /\ last.op = "updateExecution" /\ last.err = "none"
    /\ last.arg.status = "running"
    /\ last.arg.github_run_id = Some(7)
    /\ Execution(last.run).github_run_id = Some(7)
    /\ Execution(last.run).requested_at = 1
    /\ Execution(last.run).started_at = Some(2)
    /\ Doc(last.run).status = "parsed"
    /\ Doc(last.run).step_timestamps["parse"] = Some(1)
    /\ Doc(last.run).repo_state # None
    /\ Doc(last.run).last_updated_at = 2

\* C38: in every stored run document current_step has a timestamp in
\* step_timestamps, and the key created is always present, holding the time
\* of creation.
C38_CurrentStepStamped ==
    \A r \in RunIds :
       HasRun(r) => /\ Doc(r).step_timestamps[Doc(r).current_step] # None
                    /\ Doc(r).step_timestamps["created"] = Some(Doc(r).created_at)

C38_Witness ==
    /\ last.op = "updateRun" /\ last.err = "none"
    /\ Doc(last.run).current_step = "parse"
    /\ Doc(last.run).step_timestamps["parse"] = Some(2)
    /\ Doc(last.run).step_timestamps["created"] = Some(1)
    /\ HasExecution(last.run)

\* How far a status is along queued -> dispatched -> running -> terminal.
ExecutionRank(status) ==
    CASE status = "queued" -> 0
      [] status = "dispatched" -> 1
      [] status = "running" -> 2
      [] OTHER -> 3

\* C39: the execution lifecycle is finite: every successful updateExecution,
\* markExecutionDispatched or failExecution moves the status strictly forward
\* along queued, dispatched, running, terminal (so one execution changes
\* status at most three times), a rejected call changes nothing, and once the
\* status is terminal every such call is rejected.
C39_LifecycleFinite ==
    [][\A r \in RunIds :
         (/\ last' # last
          /\ last'.run = r
          /\ last'.op \in {"updateExecution", "markExecutionDispatched", "failExecution"})
         => /\ last'.err = "none"
               => /\ HasExecution(r)
                  /\ ExecutionRank(runFile'[r][1].execution[1].status)
                        > ExecutionRank(Execution(r).status)
                  /\ ExecutionRank(runFile'[r][1].execution[1].status) <= 3
            /\ last'.err # "none" => runFile' = runFile
            /\ (HasExecution(r) /\ Execution(r).status \in TerminalStatuses)
               => last'.err \in {"RunConflictError", "InvalidExecutionTransitionError"}]_vars

C39_Witness ==
    /\ last.op = "updateExecution"
    /\ last.err = "InvalidExecutionTransitionError"
    /\ last.arg.status = "running"
    /\ last.from = "succeeded"
    /\ HasExecution(last.run)
    /\ Execution(last.run).status = "succeeded"
    /\ Execution(last.run).started_at = Some(1)
    /\ Execution(last.run).completed_at = Some(2)

----------------------------------------------------------------------------
(* Properties of stopped and completed calls (specification SpecCrash)     *)

\* No call is in flight.
Quiescent == tasks[CrashTask].pc \in {"idle", "done"}

\* C13: after any sequence of createRun / updateRun / queueExecution / listRuns
\* calls that all ran to their end, every record of index.json names a run
\* whose run.json exists, and equals the summary (run_id, created_at, status,
\* current_step, last_updated_at) of that document.
C13_IndexConsistent ==
    (Quiescent /\ ~crashed /\ indexFile # None)
    => \A i \in 1..Len(indexFile[1]) :
          LET rec == indexFile[1][i] IN
          /\ runFile[rec.run_id] # None
          /\ rec = toRunRecord(runFile[rec.run_id][1])

C13_Witness ==
    /\ Quiescent /\ ~crashed
    /\ started = 2
    /\ tasks[CrashTask].op = "updateRun" /\ tasks[CrashTask].err = "none"
    /\ indexFile # None /\ Len(indexFile[1]) = 2
    /\ \E i \in 1..2 : indexFile[1][i].status = "parsed" /\ indexFile[1][i].last_updated_at = 2
    /\ \E i \in 1..2 : indexFile[1][i].status = "created"

\* C14: at every point where a createRun or a persist can be stopped, every run
\* id listed in index.json has an existing run.json.
C14_IndexedRunsExist ==
    indexFile # None
    => \A i \in 1..Len(indexFile[1]) : runFile[indexFile[1][i].run_id] # None

\* C15: when a persist of run R completes after the index was left stale for R
\* (an earlier call stopped between its write of run.json and its write of
\* index.json), the index record of R equals the summary of R's document and
\* the records of all other runs are those the call found.
C15_StaleIndexHeals ==
    [][LET before == tasks[CrashTask]
           after == tasks'[CrashTask]
           r == before.run
       IN (/\ before.pc \notin {"idle", "done"}
           /\ before.call \in {"updateRun", "queueExecution"}
           /\ after.pc = "done" /\ after.err = "none"
           /\ found.stale)
          => /\ runFile'[r] # None
             /\ IndexEntries(indexFile', r) = {toRunRecord(runFile'[r][1])}
             /\ \A q \in CrashRunIds \ {r} :
                   IndexEntries(indexFile', q) = IndexEntries(found.index, q)]_vars

C15_Witness ==
    /\ Quiescent /\ crashed /\ found.stale
    /\ tasks[CrashTask].op = "updateRun" /\ tasks[CrashTask].err = "none"
    /\ IndexEntries(found.index, "r1") # {}
    /\ IndexEntries(found.index, "r2") # {}
    /\ IndexEntries(indexFile, tasks[CrashTask].run)
          = {toRunRecord(runFile[tasks[CrashTask].run][1])}
    /\ IndexEntries(indexFile, tasks[CrashTask].run)
          # IndexEntries(found.index, tasks[CrashTask].run)

\* The steps of one atomicWriteFile between its write of the temp file and the
\* end of its rename.
RunWriteWindow == {"renameRun", "unlinkRun", "renameRunAgain"}
IndexWriteWindow == {"initIndexRename", "renameIndex", "unlinkIndex", "renameIndexAgain"}

\* C16: while an atomicWriteFile is between its temp-file write and the end of
\* its rename the destination stays as it was, so a kill anywhere in between
\* leaves the previous content (or absence); and no step ever removes a
\* destination that existed.
C16_AtomicWrite ==
    [][/\ (tasks[CrashTask].pc \in RunWriteWindow /\ tasks'[CrashTask].pc \in RunWriteWindow)
             => runFile' = runFile
       /\ (tasks[CrashTask].pc \in IndexWriteWindow /\ tasks'[CrashTask].pc \in IndexWriteWindow)
             => indexFile' = indexFile
       /\ \A r \in CrashRunIds : runFile[r] # None => runFile'[r] # None
       /\ indexFile # None => indexFile' # None]_vars

\* All orders in which the records of a sequence can be stored.
SeqPerms(seq) ==
    { [i \in 1..Len(seq) |-> seq[f[i]]] : f \in Permutations(1..Len(seq)) }

\* C17: listRuns returns the records of the index newest created_at first and,
\* for equal created_at, by ascending run_id; the result is the same for every
\* order in which the same records could be stored.
C17_ListRunsTotalOrder ==
    (tasks[CrashTask].op = "listRuns" /\ tasks[CrashTask].pc = "done"
     /\ tasks[CrashTask].err = "none")
    => LET result == tasks[CrashTask].nextRuns
           stored == readOrInitIndex(indexFile)
       IN /\ Len(result) = Len(stored)
          /\ { result[i] : i \in 1..Len(result) } = { stored[i] : i \in 1..Len(stored) }
          /\ \A i, j \in 1..Len(result) :
                i < j => \/ result[i].created_at > result[j].created_at
                         \/ /\ result[i].created_at = result[j].created_at
                            /\ RunIdRank(result[i].run_id) < RunIdRank(result[j].run_id)
          /\ \A perm \in SeqPerms(stored) : listRuns(Some(perm)) = result

C17_Witness ==
    /\ tasks[CrashTask].op = "listRuns" /\ tasks[CrashTask].pc = "done"
    /\ tasks[CrashTask].err = "none"
    /\ Len(tasks[CrashTask].nextRuns) = 2
    /\ tasks[CrashTask].nextRuns[1].created_at = tasks[CrashTask].nextRuns[2].created_at
    /\ tasks[CrashTask].nextRuns[1].run_id = "r1"
    /\ tasks[CrashTask].nextRuns[1].last_updated_at < tasks[CrashTask].nextRuns[2].last_updated_at

----------------------------------------------------------------------------
(* Properties of the artifact calls (specification SpecArtifacts)          *)

\* The manifest entries of run r, and those with logical name n.
Manifest(r) == readOrInitArtifactsIndex(manifest[r])
EntriesOf(artifacts, n) == SelectSeq(artifacts, LAMBDA a : a.name = n)

\* A writeArtifact of run r that returned.
Wrote(r) == last'.op = "writeArtifact" /\ last'.run = r /\ last'.err = "none"

\* After a writeArtifact that returned, the manifest holds one entry per name,
\* the entry of the written name carries the hash and created_at of this
\* payload, and every other entry is as before.
UpsertedLatest(r) ==
    LET after == readOrInitArtifactsIndex(manifest'[r])
        arg == last'.arg
    IN /\ \A n \in ArtifactNames : Len(EntriesOf(after, n)) <= 1
       /\ Len(EntriesOf(after, arg.name)) = 1
       /\ EntriesOf(after, arg.name)[1].sha256
             = sha256Hex(Serialize(arg.content_type, arg.payload))
       /\ EntriesOf(after, arg.name)[1].created_at = clock
       /\ EntriesOf(after, arg.name)[1].content_type = arg.content_type
       /\ last'.result = Some(EntriesOf(after, arg.name)[1])
       /\ \A n \in ArtifactNames \ {arg.name} :
             EntriesOf(after, n) = EntriesOf(Manifest(r), n)

C19_ManifestSorted ==
    \A r \in RunIds :
       LET artifacts == Manifest(r) IN
       /\ \A i, j \in 1..Len(artifacts) :
             i < j => \/ artifacts[i].created_at > artifacts[j].created_at
                      \/ /\ artifacts[i].created_at = artifacts[j].created_at
                         /\ NameLess(artifacts[i].name, artifacts[j].name)
       /\ \A perm \in SeqPerms(artifacts) : sortArtifacts(perm) = artifacts

C19_ListReturnsManifest ==
    \A r \in RunIds :
       (last'.op = "listArtifacts" /\ last'.run = r /\ last'.err = "none")
       => /\ last'.result = Some(Manifest(r))
          /\ readOrInitArtifactsIndex(manifest'[r]) = Manifest(r)

C19_ListArtifactsOrdered == [](C19_ManifestSorted) /\ [][C19_ListReturnsManifest]_vars

C19_Witness ==
    /\ last.op = "listArtifacts" /\ last.err = "none"
    /\ Len(last.result[1]) = 2
    /\ last.result[1][1].created_at = last.result[1][2].created_at
    /\ last.result[1][1].name = <<" ", "P", "!", "!">>
    /\ last.result[1][1].sha256 # last.result[1][2].sha256

\* C20: every store call that takes a run id raises RunNotFoundError when
\* run.json is absent or does not parse, and then changes no file: no run
\* document, no index, no artifact file and no manifest.
C20_MissingRunNotFound ==
    [][\A r \in RunIds :
         (/\ last'.run = r
          /\ last'.op \in {"updateRun", "queueExecution", "updateExecution",
                           "markExecutionDispatched", "failExecution",
                           "updateRepoState", "updateDecompositionState",
                           "updateArchitectureChat", "updateImplementationState",
                           "writeArtifact", "listArtifacts", "readArtifact"}
          /\ ~Readable(runFile[r]))
         => /\ last'.err = "RunNotFoundError"
            /\ UNCHANGED fsVars
            /\ UNCHANGED artVars]_vars

C20_Witness ==
    /\ last.op = "writeArtifact"
    /\ last.err = "RunNotFoundError"
    /\ runFile[last.run] = Some(Unreadable)
    /\ manifest[last.run] = None
    /\ \A f \in ArtifactFilenames : artifactFile[last.run][f] = None

\* C21: readArtifact on an existing run, with a name that has no entry in the
\* manifest, raises RunConflictError and returns no payload, also when a file
\* with the filename derived from that name lies in the artifacts directory.
C21_ReadUnknownArtifactConflicts ==
    [][\A r \in RunIds :
         (/\ Called("readArtifact", r)
          /\ Readable(runFile[r])
          /\ EntriesOf(Manifest(r), last'.arg) = <<>>)
         => (/\ last'.err = "RunConflictError"
             /\ last'.result = None
             /\ artifactFile' = artifactFile)]_vars

C21_Witness ==
    /\ last.op = "readArtifact"
    /\ last.err = "RunConflictError"
    /\ Readable(runFile[last.run])
    /\ last.arg = <<" ", "P", "!", "!">>
    /\ artifactFile[last.run][artifactFilename(last.arg, "application/json")] # None
    /\ Len(Manifest(last.run)) = 1

\* What readArtifact(r, n) returns on the files as they are, and after the step.
ReadNow(r, n) == readArtifactResult(runFile[r], artifactFile[r], manifest[r], n)
ReadNext(r, n) == readArtifactResult(runFile'[r], artifactFile'[r], manifest'[r], n)

\* C35: artifact round trip: after every writeArtifact, readArtifact of the
\* written name returns the payload just written, and readArtifact of every
\* other name returns what it returned before the write.
C35_ArtifactRoundTrip ==
    [][\A r \in RunIds :
         Wrote(r)
         => /\ ReadNext(r, last'.arg.name).err = "none"
            /\ ReadNext(r, last'.arg.name).result[1].payload = last'.arg.payload
            /\ \A n \in ArtifactNames \ {last'.arg.name} :
                  /\ ReadNext(r, n).err = ReadNow(r, n).err
                  /\ ReadNow(r, n).err = "none"
                     => ReadNext(r, n).result[1].payload
                           = ReadNow(r, n).result[1].payload]_vars

\* C36: manifest hash integrity: after every completed writeArtifact, each
\* entry of the manifest names a stored file whose bytes hash to the sha256
\* the entry records.
C36_ManifestHashIntegrity ==
    \A r \in RunIds :
       \A i \in 1..Len(Manifest(r)) :
          /\ artifactFile[r][Manifest(r)[i].filename] # None
          /\ sha256Hex(artifactFile[r][Manifest(r)[i].filename][1]) = Manifest(r)[i].sha256

----------------------------------------------------------------------------
(* Properties of stopped artifact writes (specification SpecArtifactCrash) *)

\* C37: the artifact body is written before the manifest: in every state,
\* also when writeArtifact was stopped between two of its file-system steps,
\* every manifest entry names a file that exists, so readArtifact of a listed
\* name does not fail on a missing file.
C37_ListedArtifactsExist ==
    \A r \in RunIds :
       (tasks[CrashTask].pc \in {"idle", "done"})
       => \A i \in 1..Len(Manifest(r)) :
             /\ artifactFile[r][Manifest(r)[i].filename] # None
             /\ ReadNow(r, Manifest(r)[i].name).err # "ENOENT"

----------------------------------------------------------------------------
(* Properties of the sub-state updates (specification SpecSubState)        *)

\* The step just taken was the sub-state update c.
SubStateCalled(c, r) == Called(c[1], r) /\ last'.arg = c[3]

C26_IdentityImmutable ==
    [][\A r \in RunIds :
         HasRun(r) => (/\ runFile'[r] # None
                       /\ runFile'[r][1].run_id = Doc(r).run_id
                       /\ runFile'[r][1].created_at = Doc(r).created_at
                       /\ runFile'[r][1].input = Doc(r).input)]_vars

C26_Witness ==
    /\ last.op = "updateArchitectureChat" /\ last.err = "none"
    /\ HasExecution(last.run)
    /\ Execution(last.run).status = "failed"
    /\ Doc(last.run).run_id = last.run
    /\ Doc(last.run).created_at = 1
    /\ Doc(last.run).last_updated_at = 2
    /\ Doc(last.run).input = Some("prd")
    /\ Doc(last.run).current_step = "parse"
    /\ Doc(last.run).repo_state # None
    /\ Doc(last.run).implementation_state # None
    /\ Manifest(last.run) # <<>>

----------------------------------------------------------------------------
(* Properties of dispatchRun (specification SpecDispatch)                  *)

\* The stored execution of run r after the step.
ExecutionAfter(r) == runFile'[r][1].execution[1]

\* The dispatchRun request queues its execution in this step.
Queues(t) == tasks[t].pc = "queue" /\ tasks'[t].queued

\* C27: queueExecution(id, workflowName, backend) records the backend it is
\* asked for: the execution dispatchRun queues carries local_process when the
\* request uses local execution and github_actions otherwise.
C27_QueueRecordsBackend ==
    [][Queues(DispatchTask)
       => ExecutionAfter(tasks[DispatchTask].run).backend
             = tasks[DispatchTask].arg.backend]_vars

\* The prerequisites of a workflow as the stored run shows them.
HasArchitecturePack(r) == EntriesOf(Manifest(r), ArchitecturePackName) # <<>>

PrerequisitesHold(r, workflowName) ==
    CASE workflowName = "phase2-implementation" ->
            /\ HasArchitecturePack(r)
            /\ Doc(r).repo_state # None
            /\ Doc(r).decomposition_state # None
            /\ Doc(r).decomposition_state[1].status = "approved"
      [] workflowName = "phase2-decomposition" ->
            HasArchitecturePack(r) /\ Doc(r).repo_state # None
      [] workflowName \in {"phase1-architecture-refinement", "phase2-repo-provision"} ->
            HasArchitecturePack(r)
      [] OTHER -> TRUE

\* C28: dispatchRun queues an execution only if the prerequisites of the
\* workflow hold in the stored run (implementation: architecture pack, repo
\* state and approved decomposition state; decomposition: architecture pack
\* and repo state; architecture refinement and repo provision: architecture
\* pack); on an existing run without them the reply is 409 and the run
\* document and the index stay as they were.
C28_QueuedOnlyWithPrerequisites ==
    [][/\ Queues(DispatchTask)
          => PrerequisitesHold(tasks[DispatchTask].run,
                               tasks[DispatchTask].arg.workflow_name)
       /\ (/\ tasks[DispatchTask].pc = "prerequisites"
           /\ tasks'[DispatchTask].pc # "prerequisites"
           /\ Readable(runFile[tasks[DispatchTask].run])
           /\ ~PrerequisitesHold(tasks[DispatchTask].run,
                                 tasks[DispatchTask].arg.workflow_name))
          => (/\ tasks'[DispatchTask].pc = "done"
              /\ tasks'[DispatchTask].reply = "409"
              /\ ~tasks'[DispatchTask].queued
              /\ runFile' = runFile
              /\ indexFile' = indexFile)]_vars

C28_Witness ==
    /\ tasks[DispatchTask].pc = "done"
    /\ tasks[DispatchTask].reply = "409"
    /\ tasks[DispatchTask].arg.workflow_name = "phase2-implementation"
    /\ HasArchitecturePack(tasks[DispatchTask].run)
    /\ Doc(tasks[DispatchTask].run).repo_state # None
    /\ Doc(tasks[DispatchTask].run).decomposition_state
          = Some(DecompositionState("draft", None))
    /\ Doc(tasks[DispatchTask].run).execution = None

\* C29: when the external dispatch fails with GitHubActionsDispatchError,
\* GitHubActionsConfigError or LocalWorkflowRunnerError after the execution
\* was queued, dispatchRun goes on to failExecution, which moves the
\* execution from queued to failed with the message of the error and a
\* completed_at, after which queueExecution accepts the run again; and the
\* stored execution becomes dispatched only in the markExecutionDispatched
\* of a request whose external dispatch returned without error.
C29_DispatchFailureFailsExecution ==
    [][/\ (/\ tasks[DispatchTask].pc = "dispatch"
           /\ tasks'[DispatchTask].err \in {"GitHubActionsDispatchError",
                                            "GitHubActionsConfigError",
                                            "LocalWorkflowRunnerError"})
          => (/\ tasks[DispatchTask].queued
              /\ tasks'[DispatchTask].pc = "fail"
              /\ Execution(tasks[DispatchTask].run).status = "queued")
       /\ (tasks[DispatchTask].pc = "fail" /\ tasks'[DispatchTask].pc # "fail")
          => (/\ Execution(tasks[DispatchTask].run).status = "queued"
              /\ tasks'[DispatchTask].pc = "done"
              /\ tasks'[DispatchTask].reply \in {"500", "502"}
              /\ ExecutionAfter(tasks[DispatchTask].run).status = "failed"
              /\ ExecutionAfter(tasks[DispatchTask].run).error_message
                    = Some(ErrorMessageOf(tasks[DispatchTask].err))
              /\ ExecutionAfter(tasks[DispatchTask].run).completed_at = Some(clock)
              /\ queueExecutionResult(runFile'[tasks[DispatchTask].run][1],
                                      "phase1-planner", clock).err = "none")
       /\ \A r \in RunIds :
             (/\ runFile'[r] # None
              /\ runFile'[r][1].execution # None
              /\ ExecutionAfter(r).status = "dispatched"
              /\ ~(HasExecution(r) /\ Execution(r).status = "dispatched"))
             => (/\ tasks[DispatchTask].pc = "mark"
                 /\ tasks[DispatchTask].run = r
                 /\ tasks[DispatchTask].dispatched)]_vars

C29_Witness ==
    /\ tasks[DispatchTask].pc = "done"
    /\ tasks[DispatchTask].err = "LocalWorkflowRunnerError"
    /\ tasks[DispatchTask].reply = "500"
    /\ tasks[DispatchTask].queued
    /\ Execution(tasks[DispatchTask].run).status = "failed"
    /\ Execution(tasks[DispatchTask].run).workflow_name = "phase2-decomposition"
    /\ Execution(tasks[DispatchTask].run).requested_at = 1
    /\ Execution(tasks[DispatchTask].run).completed_at = Some(2)
    /\ Execution(tasks[DispatchTask].run).error_message
          = Some("Failed to start local workflow runner")

\* C30: dispatchRun never leaves a run stuck in queued: on every exit of a
\* request that queued its execution (reply sent, or an error thrown on to
\* the framework), the stored execution is dispatched or failed.
C30_NeverStuckQueued ==
    [][(/\ tasks[DispatchTask].pc \notin {"idle", "done"}
        /\ tasks'[DispatchTask].pc = "done"
        /\ tasks'[DispatchTask].queued)
       => ExecutionAfter(tasks[DispatchTask].run).status \in {"dispatched", "failed"}]_vars

----------------------------------------------------------------------------
(* Properties of calls on different runs (specification SpecTwoRuns)       *)

\* C23: calls on different runs are independent: once a mutating call on run
\* r1 and one on run r2, interleaved in any way, have both returned without
\* error, index.json holds one entry for each of the two runs and each entry
\* is the summary of its run document.
C23_DifferentRunsIndependent ==
    (\A t \in TaskIds : tasks[t].pc = "done" /\ tasks[t].err = "none")
    => \A r \in CrashRunIds :
          /\ runFile[r] # None
          /\ indexFile # None
          /\ SelectSeq(indexFile[1], LAMBDA rec : rec.run_id = r)
                = <<toRunRecord(runFile[r][1])>>

----------------------------------------------------------------------------
(* Properties of interleaved store calls (specification SpecRace)          *)

IsQueueTask(t) == tasks[t].op \in {"queueExecution", "dispatchRun"}

\* C3: of two queueExecution / dispatchRun calls that found the same stored
\* state of a run (planning input present, no active execution), at most one
\* succeeds in queueing, so the external dispatch is issued at most once.
C3_AtMostOneQueueSucceeds ==
    \A t1, t2 \in TaskIds :
       (/\ t1 # t2
        /\ IsQueueTask(t1) /\ IsQueueTask(t2)
        /\ tasks[t1].run = tasks[t2].run
        /\ tasks[t1].readVersion = tasks[t2].readVersion)
       => (/\ ~(tasks[t1].queued /\ tasks[t2].queued)
           /\ ~(tasks[t1].dispatched /\ tasks[t2].dispatched))

\* The step puts a document computed by a queueExecution call onto run.json of r.
QueueReplaces(r) ==
    /\ runFile'[r] # runFile[r]
    /\ \E t \in TaskIds :
          /\ tasks[t].run = r
          /\ tasks[t].call = "queueExecution"
          /\ tasks[t].next = runFile'[r]

\* C4: once the stored execution is succeeded or failed, its status,
\* completed_at and error_message stay as recorded until a queueExecution
\* replaces the execution, whatever store calls interleave on the run.
C4_TerminalStaysTerminal ==
    [][\A r \in RunIds :
         (HasExecution(r) /\ Execution(r).status \in {"succeeded", "failed"})
         => \/ QueueReplaces(r)
            \/ /\ runFile'[r] # None
               /\ runFile'[r][1].execution # None
               /\ runFile'[r][1].execution[1].status = Execution(r).status
               /\ runFile'[r][1].execution[1].completed_at = Execution(r).completed_at
               /\ runFile'[r][1].execution[1].error_message = Execution(r).error_message]_vars

\* The sub-document a call writes, and whether run.json shows what call t wrote.
SubDocumentOf(op) ==
    CASE op = "updateRepoState" -> "repo_state"
      [] op = "updateDecompositionState" -> "decomposition_state"
      [] op = "updateArchitectureChat" -> "architecture_chat"
      [] op = "updateImplementationState" -> "implementation_state"
      [] op = "updateExecution" -> "execution"
      [] OTHER -> "none"

HoldsOwnValue(t) ==
    LET doc == runFile[tasks[t].run][1] IN
    IF tasks[t].op = "updateExecution"
    THEN doc.execution # None /\ doc.execution[1].status = tasks[t].arg.status
    ELSE doc[SubDocumentOf(tasks[t].op)] = Some(tasks[t].arg)

\* C24: sub-state updates are last-write-wins per sub-document: when two
\* updates of different sub-documents of one run interleave (sub-state
\* updates with each other or with updateExecution), both return without
\* error and each sub-document holds the value its own update wrote.
C24_SubDocumentLastWriteWins ==
    \A t1, t2 \in TaskIds :
       (/\ t1 # t2
        /\ tasks[t1].pc = "done" /\ tasks[t2].pc = "done"
        /\ tasks[t1].run = tasks[t2].run
        /\ SubDocumentOf(tasks[t1].op) # "none"
        /\ SubDocumentOf(tasks[t2].op) # "none"
        /\ SubDocumentOf(tasks[t1].op) # SubDocumentOf(tasks[t2].op)
        /\ \A t \in {t1, t2} :
              tasks[t].op = "updateExecution" => tasks[t].err \notin
                 {"RunConflictError", "InvalidExecutionTransitionError"})
       => (/\ tasks[t1].err = "none" /\ tasks[t2].err = "none"
           /\ HoldsOwnValue(t1) /\ HoldsOwnValue(t2))

\* Task t makes the rename of its atomic write of run.json, of index.json.
RenamesRun(t) == tasks[t].pc = "renameRun" /\ tasks'[t].pc # "renameRun"
RenamesIndex(t) == tasks[t].pc = "renameIndex" /\ tasks'[t].pc # "renameIndex"

\* C25: concurrent atomic writes of one destination follow "last successful
\* atomic rename wins": however two writeJsonAtomic calls on one path
\* interleave, each rename succeeds and puts the content of its own call onto
\* the destination, never the content of the other call, so that the
\* destination ends with the content of the call that renamed last.
C25_LastRenameWins ==
    [][\A t \in TaskIds :
         /\ RenamesRun(t) => (/\ tasks'[t].err # "ENOENT"
                              /\ runFile'[tasks[t].run] = tasks[t].next)
         /\ RenamesIndex(t) => (/\ tasks'[t].err # "ENOENT"
                                /\ indexFile' = Some(tasks[t].nextRuns))]_vars

\* Task t makes the read of run.json that decides its current store call.
ReadsRun(t) == tasks[t].pc = "getRun" /\ tasks'[t].pc # "getRun"

\* C31: dispatch and worker callbacks are ordered: whenever the worker that a
\* dispatchRun request started reports running, the stored execution is
\* already dispatched, so the callback is not rejected as an illegal
\* transition, and the markExecutionDispatched of the request is never
\* rejected because of a status the worker wrote.
C31_WorkerCallbackAfterDispatched ==
    [][\A t, u \in TaskIds :
         (/\ tasks[u].op = "dispatchRun" /\ tasks[u].dispatched
          /\ tasks[t].run = tasks[u].run)
         => /\ (/\ tasks[t].op = "updateExecution"
                /\ tasks[t].arg.status = "running"
                /\ ReadsRun(t))
               => tasks'[t].err # "InvalidExecutionTransitionError"
            /\ (tasks[u].call = "markExecutionDispatched" /\ ReadsRun(u))
               => tasks'[u].err # "InvalidExecutionTransitionError"]_vars

\* Task t is a call that asks for a terminal status of the execution.
RequestsTerminal(t) ==
    \/ tasks[t].op = "failExecution"
    \/ tasks[t].op = "updateExecution" /\ tasks[t].arg.status \in TerminalStatuses

\* C32: an execution is completed at most once: of two updateExecution /
\* failExecution calls that ask for a terminal status of the same execution,
\* however they interleave, at most one returns without error (the other is
\* rejected), so what the first recorded is not replaced by the second.
C32_CompletedAtMostOnce ==
    \A t1, t2 \in TaskIds :
       (/\ t1 # t2
        /\ tasks[t1].pc = "done" /\ tasks[t2].pc = "done"
        /\ tasks[t1].run = tasks[t2].run
        /\ RequestsTerminal(t1) /\ RequestsTerminal(t2))
       => ~(tasks[t1].err = "none" /\ tasks[t2].err = "none")

----------------------------------------------------------------------------
(* Properties of the worker agents (specification SpecAgent)               *)

\* C33: every worker run reports a terminal outcome: when an agent that
\* started on a dispatched execution ends, by completing or by throwing at
\* any step, the stored execution is succeeded, or failed with the message of
\* the error recorded; it is never left dispatched or running.
C33_AgentReportsTerminalOutcome ==
    [][(tasks[AgentTask].pc # "done" /\ tasks'[AgentTask].pc = "done")
       => LET after == ExecutionAfter(tasks[AgentTask].run) IN
          IF tasks'[AgentTask].err = "none"
          THEN after.status = "succeeded"
          ELSE /\ after.status = "failed"
               /\ after.error_message = Some(tasks'[AgentTask].arg)]_vars

====
